---- MODULE Spec2Model ----
(***************************************************************************)
(* Transaction status progression of the banking front-end (App component).*)
(*                                                                         *)
(* Time is the value of Date.now(), in milliseconds.  The ledger is the    *)
(* React state `transactions`; every handler is one atomic action because  *)
(* all of them run on the single event loop and change the ledger through  *)
(* functional updaters (setTransactions(prev => ...)).                     *)
(***************************************************************************)
EXTENDS Integers, Sequences, FiniteSets, TLC

VARIABLES now, transactions, notifications, pushNotification, outbox,
          pushNotificationSettings, privacySettings,
          recipients, accounts, loginState, intervalArmed, pending, rendered,
          result,
          showInactivityModal, showLogoutModal, inactivityTimer, timeouts,
          renderedAccounts, paid, depositFlow, receipt

vars == <<now, transactions, notifications, pushNotification, outbox,
          pushNotificationSettings, privacySettings,
          recipients, accounts, loginState, intervalArmed, pending, rendered,
          result,
          showInactivityModal, showLogoutModal, inactivityTimer, timeouts,
          renderedAccounts, paid, depositFlow, receipt>>

\* The modals of the App component and its pending timeouts.
shell == <<showInactivityModal, showLogoutModal, inactivityTimer, timeouts>>

\* What the screens hold: the accounts of the last render (the value in
\* the closures of the paying handlers), the log of what those handlers
\* bought, and the state of the CheckDepositFlow and PaymentReceipt
\* components.
views == <<renderedAccounts, paid, depositFlow, receipt>>

\* The state that the ledger handlers neither read nor write.
session == <<recipients, accounts, loginState, intervalArmed, pending,
             rendered, shell, views>>

(***************************************************************************)
(* Bounds of the model.                                                    *)
(***************************************************************************)
MaxClock == 17000
MaxTx == 1
MaxSubmitAt == 0
FlaggedAt == 5000
MaxGrantDelay == 40
MaxLateMs == 1

(***************************************************************************)
(* Program constants.                                                      *)
(***************************************************************************)
MsPerSecond == 1000
ConvertAfter == 4
TransitAfter == 8
ArriveAfter == 15
ClearanceDelay == 4
ArrivalDays == 3
MsPerDay == 86400000

Null == "null"

SUBMITTED == "SUBMITTED"
CONVERTING == "CONVERTING"
FLAGGED_AWAITING_CLEARANCE == "FLAGGED_AWAITING_CLEARANCE"
CLEARANCE_GRANTED == "CLEARANCE_GRANTED"
IN_TRANSIT == "IN_TRANSIT"
FUNDS_ARRIVED == "FUNDS_ARRIVED"

TransactionStatus ==
    {SUBMITTED, CONVERTING, FLAGGED_AWAITING_CLEARANCE, CLEARANCE_GRANTED,
     IN_TRANSIT, FUNDS_ARRIVED}

Methods == {"code", "fee"}

(***************************************************************************)
(* JavaScript numbers.  Timestamps are integers (exact), but the sweep     *)
(* divides them by 1000, so elapsedSeconds and the clearance threshold are *)
(* IEEE-754 doubles.  A non-negative double is modelled exactly, as        *)
(* int + sum of frac[i] * 2^(-i), and every operation rounds to the 53-bit *)
(* significand (round to nearest, ties to even) as the hardware does.      *)
(***************************************************************************)
SignificandBits == 53

RECURSIVE Log2(_)
Log2(n) == IF n <= 1 THEN 0 ELSE 1 + Log2(n \div 2)

\* The binary digits of r / d (0 <= r < d) from digit k+1 on, until the
\* significand is full: `lead` is the number of significant digits still
\* wanted, counted from the first 1 when started is FALSE.
RECURSIVE DivDigits(_, _, _, _, _)
DivDigits(r, d, acc, started, lead) ==
    IF lead = 0 \/ r = 0 THEN [bits |-> acc, rem |-> r]
    ELSE LET b == (2 * r) \div d
             s == started \/ b = 1
         IN  DivDigits((2 * r) % d, d, Append(acc, b), s,
                       IF s THEN lead - 1 ELSE lead)

\* int.frac + one unit in the last place of frac
RECURSIVE IncFrac(_, _)
IncFrac(frac, i) ==
    IF i = 0 THEN [carry |-> 1, frac |-> frac]
    ELSE IF frac[i] = 0 THEN [carry |-> 0, frac |-> [frac EXCEPT ![i] = 1]]
    ELSE IncFrac([frac EXCEPT ![i] = 0], i - 1)

RoundUp(x) ==
    LET r == IncFrac(x.frac, Len(x.frac))
    IN  [int |-> x.int + r.carry, frac |-> r.frac]

IsOdd(x) == IF Len(x.frac) = 0 THEN x.int % 2 = 1 ELSE x.frac[Len(x.frac)] = 1

NumFromInt(n) == [int |-> n, frac |-> <<>>]

\* a / d for integers a >= 0, d > 0
NumDiv(a, d) ==
    LET q == a \div d
        lead == IF q = 0 THEN SignificandBits
                ELSE SignificandBits - 1 - Log2(q)
        dg == DivDigits(a % d, d, <<>>, q > 0, lead)
        t == [int |-> q, frac |-> dg.bits]
    IN  IF 2 * dg.rem > d \/ (2 * dg.rem = d /\ IsOdd(t)) THEN RoundUp(t)
        ELSE t

\* x + n for a double x and an integer n >= 1
NumAddInt(x, n) ==
    LET i == x.int + n
        keep == SignificandBits - 1 - Log2(i)
        len == Len(x.frac)
    IN  IF len <= keep THEN [int |-> i, frac |-> x.frac]
        ELSE LET t == [int |-> i, frac |-> SubSeq(x.frac, 1, keep)]
                 half == x.frac[keep + 1] = 1
                 sticky == \E j \in (keep + 2)..len : x.frac[j] = 1
             IN  IF half /\ (sticky \/ IsOdd(t)) THEN RoundUp(t) ELSE t

RECURSIVE FracGt(_, _, _)
FracGt(f, g, i) ==
    IF i > Len(f) THEN FALSE
    ELSE LET gi == IF i > Len(g) THEN 0 ELSE g[i]
         IN  IF f[i] # gi THEN f[i] > gi ELSE FracGt(f, g, i + 1)

\* x > y
NumGt(x, y) == x.int > y.int \/ (x.int = y.int /\ FracGt(x.frac, y.frac, 1))


(***************************************************************************)
(* Records.  A JavaScript object is a function from its property names; an *)
(* optional property that was never set is absent from the domain.  The    *)
(* object spread {...a, k: v} is ([k |-> v] @@ a): later keys win.         *)
(***************************************************************************)
Has(obj, key) == key \in DOMAIN obj

\* `txn_${Date.now()}`: injective in the time of creation
TxnId(t) == <<"txn_", t>>

NoSuchId == <<"txn_", -1>>

Recipients == {[id |-> "rec_1", fullName |-> "Jane Doe"]}

\* INITIAL_RECIPIENTS and INITIAL_ACCOUNTS are imported constants: one
\* recipient and one funded account stand for them.
InitialRecipients == <<[id |-> "rec_1", fullName |-> "Jane Doe"]>>

InitialAccounts == <<[id |-> "acc_1", balance |-> 100]>>

\* The argument of createTransaction: requiresAuth is optional
\* (onSplitTransaction never sets it).
TransactionDetails ==
    UNION {{[accountId |-> "acc_1", recipient |-> r],
            [accountId |-> "acc_1", recipient |-> r, requiresAuth |-> TRUE],
            [accountId |-> "acc_1", recipient |-> r, requiresAuth |-> FALSE]}
           : r \in Recipients}

NewTransactionStampsArrival(transactionDetails, t) ==
    [id |-> TxnId(t),
     status |-> SUBMITTED,
     type |-> "debit",
     estimatedArrival |-> t + MsPerDay * ArrivalDays,
     statusTimestamps |-> (SUBMITTED :> t + MsPerDay * ArrivalDays)]
        @@ transactionDetails

NewTransaction(transactionDetails, t) ==
    [id |-> TxnId(t),
     status |-> SUBMITTED,
     type |-> "debit",
     estimatedArrival |-> t + MsPerDay * ArrivalDays,
     statusTimestamps |-> (SUBMITTED :> t)] @@ transactionDetails

\* addNotification(type, title, message, linkTo), applied to the pair of
\* states it writes
addNotification(st, type, title, about, settings, t) ==
    [notifications |->
        <<[id |-> <<"notif_", t>>, type |-> type, title |-> title,
           about |-> about, timestamp |-> t, read |-> FALSE]>>
        \o st.notifications,
     pushNotification |->
        IF (type = "TRANSACTION" /\ settings.transactions)
           \/ (type = "SECURITY" /\ settings.security)
        THEN [id |-> <<"push_", t>>, type |-> type, title |-> title]
        ELSE st.pushNotification]

(***************************************************************************)
(* The sweep: the body of the setInterval callback, for one transaction.   *)
(***************************************************************************)
ElapsedSeconds(tx, t) ==
    NumDiv(t - tx.statusTimestamps[SUBMITTED], MsPerSecond)

ClearanceThreshold(tx) ==
    NumAddInt(NumDiv(tx.statusTimestamps[CLEARANCE_GRANTED]
                       - tx.statusTimestamps[SUBMITTED], MsPerSecond),
              ClearanceDelay)

\* Variants of NextStatus with one slip each, used to show that the
\* properties below depend on the branch they are about.
NextStatusNoFork(tx, t) ==
    LET elapsedSeconds == ElapsedSeconds(tx, t)
    IN  IF tx.status = SUBMITTED
           /\ NumGt(elapsedSeconds, NumFromInt(ConvertAfter))
        THEN CONVERTING
        ELSE IF tx.status = CONVERTING
                /\ NumGt(elapsedSeconds, NumFromInt(TransitAfter))
        THEN IN_TRANSIT
        ELSE IF tx.status = IN_TRANSIT
                /\ NumGt(elapsedSeconds, NumFromInt(ArriveAfter))
        THEN FUNDS_ARRIVED
        ELSE IF tx.status = CLEARANCE_GRANTED
                /\ NumGt(elapsedSeconds, ClearanceThreshold(tx))
        THEN IN_TRANSIT
        ELSE Null

NextStatusAlwaysFlagged(tx, t) ==
    LET elapsedSeconds == ElapsedSeconds(tx, t)
    IN  IF tx.status = SUBMITTED
           /\ NumGt(elapsedSeconds, NumFromInt(ConvertAfter))
        THEN FLAGGED_AWAITING_CLEARANCE
        ELSE IF tx.status = CONVERTING
                /\ NumGt(elapsedSeconds, NumFromInt(TransitAfter))
        THEN IN_TRANSIT
        ELSE IF tx.status = IN_TRANSIT
                /\ NumGt(elapsedSeconds, NumFromInt(ArriveAfter))
        THEN FUNDS_ARRIVED
        ELSE IF tx.status = CLEARANCE_GRANTED
                /\ NumGt(elapsedSeconds, ClearanceThreshold(tx))
        THEN IN_TRANSIT
        ELSE Null

NextStatusFlaggedTimeout(tx, t) ==
    LET elapsedSeconds == ElapsedSeconds(tx, t)
    IN  IF tx.status = SUBMITTED
           /\ NumGt(elapsedSeconds, NumFromInt(ConvertAfter))
        THEN IF Has(tx, "requiresAuth") /\ tx.requiresAuth
             THEN FLAGGED_AWAITING_CLEARANCE ELSE CONVERTING
        ELSE IF tx.status = CONVERTING
                /\ NumGt(elapsedSeconds, NumFromInt(TransitAfter))
        THEN IN_TRANSIT
        ELSE IF tx.status = IN_TRANSIT
                /\ NumGt(elapsedSeconds, NumFromInt(ArriveAfter))
        THEN FUNDS_ARRIVED
        ELSE IF tx.status = CLEARANCE_GRANTED
                /\ NumGt(elapsedSeconds, ClearanceThreshold(tx))
        THEN IN_TRANSIT
        ELSE IF tx.status = FLAGGED_AWAITING_CLEARANCE
                /\ NumGt(elapsedSeconds, NumFromInt(TransitAfter))
        THEN IN_TRANSIT
        ELSE Null

NextStatusAtThreshold(tx, t) ==
    LET elapsedSeconds == ElapsedSeconds(tx, t)
    IN  IF tx.status = SUBMITTED
           /\ ~NumGt(NumFromInt(ConvertAfter), elapsedSeconds)
        THEN IF Has(tx, "requiresAuth") /\ tx.requiresAuth
             THEN FLAGGED_AWAITING_CLEARANCE ELSE CONVERTING
        ELSE IF tx.status = CONVERTING
                /\ ~NumGt(NumFromInt(TransitAfter), elapsedSeconds)
        THEN IN_TRANSIT
        ELSE IF tx.status = IN_TRANSIT
                /\ ~NumGt(NumFromInt(ArriveAfter), elapsedSeconds)
        THEN FUNDS_ARRIVED
        ELSE IF tx.status = CLEARANCE_GRANTED
                /\ NumGt(elapsedSeconds, ClearanceThreshold(tx))
        THEN IN_TRANSIT
        ELSE Null

NextStatusNoArrival(tx, t) ==
    LET elapsedSeconds == ElapsedSeconds(tx, t)
    IN  IF tx.status = SUBMITTED
           /\ NumGt(elapsedSeconds, NumFromInt(ConvertAfter))
        THEN IF Has(tx, "requiresAuth") /\ tx.requiresAuth
             THEN FLAGGED_AWAITING_CLEARANCE ELSE CONVERTING
        ELSE IF tx.status = CONVERTING
                /\ NumGt(elapsedSeconds, NumFromInt(TransitAfter))
        THEN IN_TRANSIT
        ELSE IF tx.status = CLEARANCE_GRANTED
                /\ NumGt(elapsedSeconds, ClearanceThreshold(tx))
        THEN IN_TRANSIT
        ELSE Null

NextStatus(tx, t) ==
    LET elapsedSeconds == ElapsedSeconds(tx, t)
    IN  IF tx.status = SUBMITTED
           /\ NumGt(elapsedSeconds, NumFromInt(ConvertAfter))
        THEN IF Has(tx, "requiresAuth") /\ tx.requiresAuth
             THEN FLAGGED_AWAITING_CLEARANCE ELSE CONVERTING
        ELSE IF tx.status = CONVERTING
                /\ NumGt(elapsedSeconds, NumFromInt(TransitAfter))
        THEN IN_TRANSIT
        ELSE IF tx.status = IN_TRANSIT
                /\ NumGt(elapsedSeconds, NumFromInt(ArriveAfter))
        THEN FUNDS_ARRIVED
        ELSE IF tx.status = CLEARANCE_GRANTED
                /\ NumGt(elapsedSeconds, ClearanceThreshold(tx))
        THEN IN_TRANSIT
        ELSE Null

SweepTxNoTimestamp(tx, t) ==
    IF tx.status = FUNDS_ARRIVED THEN tx
    ELSE LET nextStatus == NextStatus(tx, t)
         IN  IF nextStatus # Null
             THEN [status |-> nextStatus] @@ tx
             ELSE tx

SweepTxRestartsClock(tx, t) ==
    IF tx.status = FUNDS_ARRIVED THEN tx
    ELSE LET nextStatus == NextStatus(tx, t)
         IN  IF nextStatus # Null
             THEN [status |-> nextStatus,
                   statusTimestamps |->
                       (nextStatus :> t) @@ (tx.status :> t)
                           @@ tx.statusTimestamps] @@ tx
             ELSE tx

\* A sweep that keeps applying the rule until no threshold is left
SweepTxCatchesUp(tx, t) ==
    LET step(x) ==
            IF x.status = FUNDS_ARRIVED THEN x
            ELSE LET nextStatus == NextStatus(x, t)
                 IN  IF nextStatus # Null
                     THEN [status |-> nextStatus,
                           statusTimestamps |->
                               (nextStatus :> t) @@ x.statusTimestamps] @@ x
                     ELSE x
    IN  step(step(step(tx)))

SweepTx(tx, t) ==
    IF tx.status = FUNDS_ARRIVED THEN tx
    ELSE LET nextStatus == NextStatus(tx, t)
         IN  IF nextStatus # Null
             THEN [status |-> nextStatus,
                   statusTimestamps |->
                       (nextStatus :> t) @@ tx.statusTimestamps] @@ tx
             ELSE tx

\* A sweep that ran the side effects in every branch that sets nextStatus
ArrivesOnAnyTransition(tx, t) ==
    tx.status # FUNDS_ARRIVED /\ NextStatus(tx, t) # Null

\* The side effects of the IN_TRANSIT -> FUNDS_ARRIVED branch
Arrives(tx, t) ==
    tx.status # FUNDS_ARRIVED /\ NextStatus(tx, t) = FUNDS_ARRIVED

RECURSIVE SweepEffects(_, _, _, _, _, _, _)
SweepEffects(txs, i, st, out, push, privacy, t) ==
    IF i > Len(txs) THEN [st |-> st, outbox |-> out]
    ELSE IF Arrives(txs[i], t)
    THEN SweepEffects(txs, i + 1,
             IF push.transactions
             THEN addNotification(st, "TRANSACTION", "Funds Arrived",
                                  txs[i].recipient.fullName, push, t)
             ELSE st,
             IF privacy.email.transactions
             THEN Append(out, [channel |-> "email", kind |-> "fundsArrived",
                               tx |-> txs[i].id])
             ELSE out,
             push, privacy, t)
    ELSE SweepEffects(txs, i + 1, st, out, push, privacy, t)

AuthorizeTxAnyStatus(tx, transactionId, method, t) ==
    IF tx.id = transactionId
    THEN [status |-> CLEARANCE_GRANTED,
          statusTimestamps |->
              (CLEARANCE_GRANTED :> t) @@ tx.statusTimestamps,
          clearanceFeePaid |-> (method = "fee")] @@ tx
    ELSE tx

AuthorizeTxAnyId(tx, transactionId, method, t) ==
    IF tx.status = FLAGGED_AWAITING_CLEARANCE
    THEN [status |-> CLEARANCE_GRANTED,
          statusTimestamps |->
              (CLEARANCE_GRANTED :> t) @@ tx.statusTimestamps,
          clearanceFeePaid |-> (method = "fee")] @@ tx
    ELSE tx

AuthorizeTxFeeAlways(tx, transactionId, method, t) ==
    IF tx.id = transactionId /\ tx.status = FLAGGED_AWAITING_CLEARANCE
    THEN [status |-> CLEARANCE_GRANTED,
          statusTimestamps |->
              (CLEARANCE_GRANTED :> t) @@ tx.statusTimestamps,
          clearanceFeePaid |-> TRUE] @@ tx
    ELSE tx

\* onAuthorizeTransaction, for one transaction
AuthorizeTx(tx, transactionId, method, t) ==
    IF tx.id = transactionId /\ tx.status = FLAGGED_AWAITING_CLEARANCE
    THEN [status |-> CLEARANCE_GRANTED,
          statusTimestamps |->
              (CLEARANCE_GRANTED :> t) @@ tx.statusTimestamps,
          clearanceFeePaid |-> (method = "fee")] @@ tx
    ELSE tx

(***************************************************************************)
(* State machine.  The initial ledger and push settings are imported       *)
(* constants (INITIAL_TRANSACTIONS, INITIAL_PUSH_SETTINGS): the ledger     *)
(* starts empty here and the transactions push setting takes either value. *)
(* outbox is the log of the calls to sendTransactionalEmail and            *)
(* sendSmsNotification.                                                    *)
(***************************************************************************)
\* result is the value the last handler returned, with the handler's name.
NoResult == [op |-> "none"]

\* inactivityTimer.current before any timeout was set
NoTimer == [kind |-> "none", due |-> 0]

InitShell ==
    /\ showInactivityModal = FALSE
    /\ showLogoutModal = FALSE
    /\ inactivityTimer = NoTimer
    /\ timeouts = {}

Returned(op, value) == [op |-> op, value |-> value]

\* The state of a CheckDepositFlow that has just mounted; amount is the
\* text of the input, a sequence of characters.
NewDepositFlow(accs) ==
    [step |-> 1,
     amount |-> <<>>,
     accountId |-> IF accs = <<>> THEN "" ELSE accs[1].id,
     frontImage |-> Null,
     backImage |-> Null,
     error |-> "",
     uploading |-> {}]

\* The state of a PaymentReceipt that has not run its effect yet
NewReceipt == [showAuthWarning |-> FALSE, timer |-> NoTimer, status |-> Null]

InitViews ==
    /\ renderedAccounts = accounts
    /\ paid = <<>>
    /\ depositFlow = NewDepositFlow(accounts)
    /\ receipt = NewReceipt

InitSession ==
    /\ recipients = InitialRecipients
    /\ accounts = InitialAccounts
    /\ loginState = "logged_in"
    /\ intervalArmed = TRUE
    /\ pending = <<>>
    /\ rendered = <<>>
    /\ InitShell
    /\ InitViews

Init ==
    /\ now = 0
    /\ transactions = <<>>
    /\ notifications = <<>>
    /\ pushNotification = Null
    /\ outbox = <<>>
    /\ pushNotificationSettings \in
           {[transactions |-> b, security |-> TRUE] : b \in BOOLEAN}
    /\ privacySettings =
           [ads |-> TRUE, sharing |-> FALSE,
            email |-> [transactions |-> TRUE, security |-> TRUE,
                       promotions |-> FALSE],
            sms |-> [transactions |-> TRUE, security |-> TRUE,
                     promotions |-> FALSE]]
    /\ InitSession
    /\ result = NoResult

\* The clock advances; the model observes it at whole seconds.
Tick ==
    /\ now + MsPerSecond <= MaxClock
    /\ now' = now + MsPerSecond
    /\ UNCHANGED <<transactions, notifications, pushNotification, outbox,
                   pushNotificationSettings, privacySettings, session,
                   result>>

createTransaction(transactionDetails) ==
    LET newTransaction == NewTransaction(transactionDetails, now)
        st == addNotification(
                  [notifications |-> notifications,
                   pushNotification |-> pushNotification],
                  "TRANSACTION", "Transfer Submitted",
                  transactionDetails.recipient.fullName,
                  pushNotificationSettings, now)
        mail == IF privacySettings.email.transactions
                THEN <<[channel |-> "email", kind |-> "receipt",
                        tx |-> newTransaction.id]>>
                ELSE <<>>
        sms == IF privacySettings.sms.transactions
               THEN <<[channel |-> "sms", kind |-> "receipt",
                       tx |-> newTransaction.id]>>
               ELSE <<>>
    IN  /\ transactions' = <<newTransaction>> \o transactions
        /\ notifications' = st.notifications
        /\ pushNotification' = st.pushNotification
        /\ outbox' = outbox \o mail \o sms
        /\ result' = Returned("createTransaction", newTransaction)
        /\ UNCHANGED <<now, pushNotificationSettings, privacySettings,
                       session>>

\* The guards are the bounds of the model: createTransaction has none.
Submit ==
    \E d \in TransactionDetails :
        /\ Len(transactions) < MaxTx
        /\ now <= MaxSubmitAt
        /\ createTransaction(d)

\* One run of the setInterval callback.  The interval is 2000ms, but timers
\* run late and the effect re-arms the interval when its dependencies
\* change, so the sweep may find the clock at any value.
Sweep ==
    LET eff == SweepEffects(transactions, 1,
                   [notifications |-> notifications,
                    pushNotification |-> pushNotification],
                   outbox, pushNotificationSettings, privacySettings, now)
    IN  /\ transactions' =
               [i \in 1..Len(transactions) |-> SweepTx(transactions[i], now)]
        /\ notifications' = eff.st.notifications
        /\ pushNotification' = eff.st.pushNotification
        /\ outbox' = eff.outbox
        /\ UNCHANGED <<now, pushNotificationSettings, privacySettings,
                       session, result>>

onAuthorizeTransaction(transactionId, method) ==
    /\ transactions' =
           [i \in 1..Len(transactions) |->
               AuthorizeTx(transactions[i], transactionId, method, now)]
    /\ UNCHANGED <<now, notifications, pushNotification, outbox,
                   pushNotificationSettings, privacySettings, session,
                   result>>

LedgerIds == {transactions[i].id : i \in 1..Len(transactions)}

Authorize ==
    \E transactionId \in LedgerIds \cup {NoSuchId}, method \in Methods :
        onAuthorizeTransaction(transactionId, method)

Next == Tick \/ Submit \/ Sweep \/ Authorize

Spec == Init /\ [][Next]_vars

(***************************************************************************)
(* Progress.  The interval keeps calling the sweep and the clock keeps     *)
(* advancing: both are weakly fair.  The ledger holds one transaction,     *)
(* submitted at 0.  The clock of the model stops at MaxClock, so an        *)
(* authorization is taken only while the clock can still pass the          *)
(* clearance threshold that it sets.                                       *)
(***************************************************************************)
FairInit ==
    \E d \in TransactionDetails :
        LET tx == NewTransaction(d, 0)
            st == addNotification(
                      [notifications |-> <<>>, pushNotification |-> Null],
                      "TRANSACTION", "Transfer Submitted",
                      tx.recipient.fullName, pushNotificationSettings, 0)
        IN  /\ pushNotificationSettings \in
                   {[transactions |-> b, security |-> TRUE] : b \in BOOLEAN}
            /\ privacySettings =
                   [ads |-> TRUE, sharing |-> FALSE,
                    email |-> [transactions |-> TRUE, security |-> TRUE,
                               promotions |-> FALSE],
                    sms |-> [transactions |-> TRUE, security |-> TRUE,
                             promotions |-> FALSE]]
            /\ now = 0
            /\ transactions = <<tx>>
            /\ notifications = st.notifications
            /\ pushNotification = st.pushNotification
            /\ outbox = <<[channel |-> "email", kind |-> "receipt",
                           tx |-> tx.id],
                          [channel |-> "sms", kind |-> "receipt",
                           tx |-> tx.id]>>
            /\ InitSession
            /\ result = Returned("createTransaction", tx)

AuthorizeInTime ==
    /\ now + (ClearanceDelay + 1) * MsPerSecond <= MaxClock
    /\ Authorize

FairNext == Tick \/ Sweep \/ AuthorizeInTime

SpecFair ==
    FairInit /\ [][FairNext]_vars /\ WF_vars(Tick) /\ WF_vars(Sweep)

(***************************************************************************)
(* Late sweeps over a ledger of several records.  The clock is observed at *)
(* multiples of the interval; the callback may miss any number of them.    *)
(***************************************************************************)
MaxStepSubmitAt == 2000
MaxStepClock == 18000

SweepPeriod == 2000

TickSteps ==
    /\ now + SweepPeriod <= MaxStepClock
    /\ now' = now + SweepPeriod
    /\ UNCHANGED <<transactions, notifications, pushNotification, outbox,
                   pushNotificationSettings, privacySettings, session,
                   result>>

\* At most one submission at each observed clock value, up to
\* MaxStepSubmitAt.
SubmitSteps ==
    \E d \in TransactionDetails :
        /\ now <= MaxStepSubmitAt
        /\ \A i \in 1..Len(transactions) : transactions[i].id # TxnId(now)
        /\ createTransaction(d)

StepsNext == TickSteps \/ SubmitSteps \/ Sweep \/ Authorize

SpecSteps == Init /\ [][StepsNext]_vars

(***************************************************************************)
(* The clearance threshold at millisecond resolution.  The state is that   *)
(* of one transaction submitted at 0, flagged by the sweep at FlaggedAt    *)
(* and authorized at `granted`; the clock then runs in single milliseconds *)
(* around granted + 4s, and the sweep fires at any of them.                *)
(***************************************************************************)
AuthorizedAt(granted, method) ==
    LET d == CHOOSE x \in TransactionDetails :
                 Has(x, "requiresAuth") /\ x.requiresAuth
    IN  AuthorizeTx(SweepTx(NewTransaction(d, 0), FlaggedAt),
                    TxnId(0), method, granted)

ClearInit ==
    \E granted \in FlaggedAt..(FlaggedAt + MaxGrantDelay), method \in Methods :
        LET tx == AuthorizedAt(granted, method)
            st == addNotification(
                      [notifications |-> <<>>, pushNotification |-> Null],
                      "TRANSACTION", "Transfer Submitted",
                      tx.recipient.fullName, pushNotificationSettings, 0)
        IN  /\ pushNotificationSettings \in
                   {[transactions |-> b, security |-> TRUE] : b \in BOOLEAN}
            /\ privacySettings =
                   [ads |-> TRUE, sharing |-> FALSE,
                    email |-> [transactions |-> TRUE, security |-> TRUE,
                               promotions |-> FALSE],
                    sms |-> [transactions |-> TRUE, security |-> TRUE,
                             promotions |-> FALSE]]
            /\ now = granted + ClearanceDelay * MsPerSecond - MaxLateMs
            /\ transactions = <<tx>>
            /\ notifications = st.notifications
            /\ pushNotification = st.pushNotification
            /\ outbox = <<[channel |-> "email", kind |-> "receipt",
                           tx |-> tx.id],
                          [channel |-> "sms", kind |-> "receipt",
                           tx |-> tx.id]>>
            /\ InitSession
            /\ result = Returned("createTransaction",
                            NewTransaction(
                                CHOOSE x \in TransactionDetails :
                                    Has(x, "requiresAuth") /\ x.requiresAuth,
                                0))

TickMs ==
    /\ \E i \in 1..Len(transactions) :
           /\ Has(transactions[i].statusTimestamps, CLEARANCE_GRANTED)
           /\ now < transactions[i].statusTimestamps[CLEARANCE_GRANTED]
                      + ClearanceDelay * MsPerSecond + MaxLateMs
    /\ now' = now + 1
    /\ UNCHANGED <<transactions, notifications, pushNotification, outbox,
                   pushNotificationSettings, privacySettings, session,
                   result>>

ClearNext == TickMs \/ Sweep

SpecClear == ClearInit /\ [][ClearNext]_vars

(***************************************************************************)
(* The other handlers that create ledger records: the split transfer, which *)
(* calls createTransaction once per split inside one forEach, and the       *)
(* cheque deposit.  The clock of this specification stops early: the       *)
(* records are created, flagged, authorized and swept once or twice.       *)
(***************************************************************************)
MaxLedger == 2
MaxLedgerClock == 6000
MaxSplits == 2

DepositDays == 2
AccountIds == {"acc_1", "acc_none"}
SplitAmounts == {40, 70}

RECURSIVE SeqSum(_, _)
SeqSum(splits, i) ==
    IF i > Len(splits) THEN 0 ELSE splits[i].amount + SeqSum(splits, i + 1)

Range(f) == {f[i] : i \in DOMAIN f}

\* The argument of onSplitTransaction, as the split form builds it
SplitDetails ==
    {[sourceAccountId |-> a, splits |-> sp, totalAmount |-> SeqSum(sp, 1),
      purpose |-> "Dinner"] :
        a \in AccountIds,
        sp \in UNION {[1..n -> [recipient : Range(recipients),
                                amount : SplitAmounts]] : n \in 1..MaxSplits}}

\* createTransaction as a function of the state it writes
CreateEffect(st, transactionDetails, push, privacy, t) ==
    LET newTransaction == NewTransaction(transactionDetails, t)
        n == addNotification(
                 [notifications |-> st.notifications,
                  pushNotification |-> st.pushNotification],
                 "TRANSACTION", "Transfer Submitted",
                 transactionDetails.recipient.fullName, push, t)
        mail == IF privacy.email.transactions
                THEN <<[channel |-> "email", kind |-> "receipt",
                        tx |-> newTransaction.id]>>
                ELSE <<>>
        sms == IF privacy.sms.transactions
               THEN <<[channel |-> "sms", kind |-> "receipt",
                       tx |-> newTransaction.id]>>
               ELSE <<>>
    IN  [transactions |-> <<newTransaction>> \o st.transactions,
         notifications |-> n.notifications,
         pushNotification |-> n.pushNotification,
         outbox |-> st.outbox \o mail \o sms]

\* details.splits.forEach(split => createTransaction({...}))
RECURSIVE SplitEffects(_, _, _, _, _, _)
SplitEffects(details, i, st, push, privacy, t) ==
    IF i > Len(details.splits) THEN st
    ELSE SplitEffects(details, i + 1,
             CreateEffect(st,
                 [accountId |-> details.sourceAccountId,
                  recipient |-> details.splits[i].recipient,
                  sendAmount |-> details.splits[i].amount,
                  receiveAmount |-> details.splits[i].amount,
                  fee |-> 0,
                  exchangeRate |-> 1,
                  purpose |-> details.purpose,
                  description |-> <<"Split: ", details.purpose>>,
                  splitGroupId |-> <<"split_", t>>],
                 push, privacy, t),
             push, privacy, t)

\* A split transfer that does not look at the balance
onSplitTransactionNoBalanceCheck(details) ==
    LET st == SplitEffects(details, 1,
                  [transactions |-> transactions,
                   notifications |-> notifications,
                   pushNotification |-> pushNotification,
                   outbox |-> outbox],
                  pushNotificationSettings, privacySettings, now)
    IN  /\ transactions' = st.transactions
        /\ notifications' = st.notifications
        /\ pushNotification' = st.pushNotification
        /\ outbox' = st.outbox
        /\ result' = Returned("onSplitTransaction", TRUE)
        /\ UNCHANGED <<now, pushNotificationSettings, privacySettings,
                       session>>

\* The forEach runs without yielding, within one reading of the
\* millisecond clock.
onSplitTransaction(details) ==
    LET found == {i \in 1..Len(accounts) :
                     accounts[i].id = details.sourceAccountId}
        sourceAccount == accounts[CHOOSE i \in found :
                                     \A j \in found : i <= j]
        st == SplitEffects(details, 1,
                  [transactions |-> transactions,
                   notifications |-> notifications,
                   pushNotification |-> pushNotification,
                   outbox |-> outbox],
                  pushNotificationSettings, privacySettings, now)
    IN  IF found = {} \/ sourceAccount.balance < details.totalAmount
        THEN /\ result' = Returned("onSplitTransaction", FALSE)
             /\ UNCHANGED <<now, transactions, notifications,
                            pushNotification, outbox,
                            pushNotificationSettings, privacySettings,
                            session>>
        ELSE /\ transactions' = st.transactions
             /\ notifications' = st.notifications
             /\ pushNotification' = st.pushNotification
             /\ outbox' = st.outbox
             /\ result' = Returned("onSplitTransaction", TRUE)
             /\ UNCHANGED <<now, pushNotificationSettings, privacySettings,
                            session>>

ChequeId(t) == <<"txn_", t, "_cheque">>

onDepositCheck(details) ==
    LET newTransaction ==
            [id |-> ChequeId(now),
             accountId |-> details.accountId,
             recipient |-> [id |-> "self_deposit", fullName |-> "USER_PROFILE",
                            bankName |-> "Self Deposit",
                            accountNumber |-> "Cheque"],
             sendAmount |-> details.amount,
             receiveAmount |-> details.amount,
             fee |-> 0,
             exchangeRate |-> 1,
             status |-> SUBMITTED,
             type |-> "credit",
             estimatedArrival |-> now + MsPerDay * DepositDays,
             statusTimestamps |-> (SUBMITTED :> now),
             description |-> "Mobile Cheque Deposit",
             chequeDetails |-> [images |-> details.images]]
    IN  /\ transactions' = <<newTransaction>> \o transactions
        /\ UNCHANGED <<now, notifications, pushNotification, outbox,
                       pushNotificationSettings, privacySettings, session,
                       result>>

TickLedger ==
    /\ now + MsPerSecond <= MaxLedgerClock
    /\ now' = now + MsPerSecond
    /\ UNCHANGED <<transactions, notifications, pushNotification, outbox,
                   pushNotificationSettings, privacySettings, session,
                   result>>

SubmitLedger ==
    \E d \in TransactionDetails :
        /\ Len(transactions) < MaxLedger
        /\ now <= MaxSubmitAt
        /\ createTransaction(d)

SplitTransaction ==
    \E details \in SplitDetails :
        /\ Len(transactions) + Len(details.splits) <= MaxLedger
        /\ now <= MaxSubmitAt
        /\ onSplitTransaction(details)

DepositCheck ==
    /\ Len(transactions) < MaxLedger
    /\ now <= MaxSubmitAt
    /\ onDepositCheck([amount |-> 40, accountId |-> "acc_1",
                       images |-> [front |-> "front", back |-> "back"]])

LedgerNext ==
    TickLedger \/ SubmitLedger \/ SplitTransaction \/ DepositCheck \/ Sweep
        \/ Authorize

SpecLedger == Init /\ [][LedgerNext]_vars

(***************************************************************************)
(* The remaining writers of the ledger and of the settings the sweep       *)
(* reads: the bulk update the activity log is given, which merges whatever *)
(* `updates` object it receives into every record whose id is listed, and  *)
(* the two settings handlers.                                              *)
(***************************************************************************)
\* updates: Partial<Transaction>.  An annotation, and fields the handler
\* does not protect.
TransactionUpdates ==
    {[supportTicketId |-> "ticket_1"],
     [status |-> SUBMITTED],
     [requiresAuth |-> FALSE],
     [requiresAuth |-> TRUE]}

onUpdateTransactions(ids, updates) ==
    /\ transactions' =
           [i \in 1..Len(transactions) |->
               IF transactions[i].id \in ids
               THEN updates @@ transactions[i]
               ELSE transactions[i]]
    /\ UNCHANGED <<now, notifications, pushNotification, outbox,
                   pushNotificationSettings, privacySettings, session,
                   result>>

onUpdatePushNotificationSettings(newSettings) ==
    /\ pushNotificationSettings' = newSettings @@ pushNotificationSettings
    /\ UNCHANGED <<now, transactions, notifications, pushNotification,
                   outbox, privacySettings, session, result>>

onUpdatePrivacySettings(update) ==
    /\ privacySettings' = update @@ privacySettings
    /\ UNCHANGED <<now, transactions, notifications, pushNotification,
                   outbox, pushNotificationSettings, session, result>>

UpdateTransactions ==
    \E ids \in SUBSET LedgerIds, updates \in TransactionUpdates :
        /\ ids # {}
        /\ onUpdateTransactions(ids, updates)

UpdatePushNotificationSettings ==
    \E b \in BOOLEAN :
        onUpdatePushNotificationSettings([transactions |-> b])

UpdatePrivacySettings ==
    \E b \in BOOLEAN :
        onUpdatePrivacySettings(
            [email |-> [transactions |-> b, security |-> TRUE,
                        promotions |-> FALSE]])

\* The bulk update next to the handlers of the status progression, over
\* the first seconds of a transaction.
UpdatesNext ==
    TickLedger \/ Submit \/ Sweep \/ Authorize \/ UpdateTransactions

SpecUpdates == Init /\ [][UpdatesNext]_vars

\* The settings handlers next to the handlers of the status progression,
\* over the whole life of a transaction.
SettingsNext ==
    Tick \/ Submit \/ Sweep \/ Authorize
        \/ UpdatePushNotificationSettings \/ UpdatePrivacySettings

SpecSettings == Init /\ [][SettingsNext]_vars

(***************************************************************************)
(* Recipients.  A transaction holds the recipient object it was given, and *)
(* the send form gives it an element of `recipients`.  Values do not alias *)
(* here, so a handler that wrote into that element would show as a change  *)
(* of every record holding it; the handlers of the code build new objects. *)
(***************************************************************************)
MaxRecipients == 2
MaxNotifications == 2
MaxShellClock == 9000
MaxIdleClock == 600000
MaxActivations == 1
MaxPayments == 2
MaxAmountLen == 2

MaskLength == 4

\* The form data of addRecipient and onUpdateRecipient: a new name with an
\* account number longer than the mask, and the first name with one that
\* is shorter.
RecipientData ==
    {[fullName |-> "Jane Roe", accountNumber |-> <<1, 2, 3, 4, 5, 6>>],
     [fullName |-> "Jane Doe", accountNumber |-> <<7, 8>>]}

\* accountNumber.slice(-4)
LastFour(accountNumber) ==
    IF Len(accountNumber) <= MaskLength THEN accountNumber
    ELSE SubSeq(accountNumber, Len(accountNumber) - MaskLength + 1,
                Len(accountNumber))

UpdatedRecipient(r, data) ==
    [fullName |-> data.fullName,
     accountNumber |-> <<"masked">> \o LastFour(data.accountNumber),
     realDetails |-> [accountNumber |-> data.accountNumber]] @@ r

\* A handler that assigned the new details into the recipient object
\* instead of building a new one: every record of the ledger that holds
\* the object shows the new details.
onUpdateRecipientInPlace(recipientId, data) ==
    LET st == addNotification(
                  [notifications |-> notifications,
                   pushNotification |-> pushNotification],
                  "ACCOUNT", "Recipient Updated", data.fullName,
                  pushNotificationSettings, now)
        written == {recipients[i] : i \in {j \in 1..Len(recipients) :
                                          recipients[j].id = recipientId}}
    IN  /\ recipients' =
               [i \in 1..Len(recipients) |->
                   IF recipients[i].id = recipientId
                   THEN UpdatedRecipient(recipients[i], data)
                   ELSE recipients[i]]
        /\ transactions' =
               [i \in 1..Len(transactions) |->
                   IF transactions[i].recipient \in written
                   THEN [recipient |->
                            UpdatedRecipient(transactions[i].recipient, data)]
                        @@ transactions[i]
                   ELSE transactions[i]]
        /\ notifications' = st.notifications
        /\ pushNotification' = st.pushNotification
        /\ UNCHANGED <<now, outbox, pushNotificationSettings,
                       privacySettings, accounts, loginState, intervalArmed,
                       pending, rendered, result, shell, views>>

onUpdateRecipient(recipientId, data) ==
    LET st == addNotification(
                  [notifications |-> notifications,
                   pushNotification |-> pushNotification],
                  "ACCOUNT", "Recipient Updated", data.fullName,
                  pushNotificationSettings, now)
    IN  /\ recipients' =
               [i \in 1..Len(recipients) |->
                   IF recipients[i].id = recipientId
                   THEN UpdatedRecipient(recipients[i], data)
                   ELSE recipients[i]]
        /\ notifications' = st.notifications
        /\ pushNotification' = st.pushNotification
        /\ UNCHANGED <<now, transactions, outbox, pushNotificationSettings,
                       privacySettings, accounts, loginState, intervalArmed,
                       pending, rendered, result, shell, views>>

addRecipient(data) ==
    LET newRecipient ==
            [id |-> "rec_" \o ToString(now),
             fullName |-> data.fullName,
             accountNumber |-> <<"masked">> \o LastFour(data.accountNumber),
             realDetails |-> [accountNumber |-> data.accountNumber]]
        st == addNotification(
                  [notifications |-> notifications,
                   pushNotification |-> pushNotification],
                  "ACCOUNT", "Recipient Added", data.fullName,
                  pushNotificationSettings, now)
    IN  /\ recipients' = Append(recipients, newRecipient)
        /\ notifications' = st.notifications
        /\ pushNotification' = st.pushNotification
        /\ UNCHANGED <<now, transactions, outbox, pushNotificationSettings,
                       privacySettings, accounts, loginState, intervalArmed,
                       pending, rendered, result, shell, views>>

RecipientIds == {recipients[i].id : i \in 1..Len(recipients)}

UpdateRecipient ==
    \E recipientId \in RecipientIds \cup {"rec_none"},
       data \in RecipientData :
        /\ Len(notifications) < MaxNotifications
        /\ onUpdateRecipient(recipientId, data)

AddRecipient ==
    \E data \in RecipientData :
        /\ Len(recipients) < MaxRecipients
        /\ Len(notifications) < MaxNotifications
        /\ addRecipient(data)

\* The send form submits a transfer to one of the current recipients.
SubmitToRecipient ==
    \E r \in Range(recipients) :
        /\ Len(transactions) < MaxLedger
        /\ Len(notifications) < MaxNotifications
        /\ createTransaction([accountId |-> "acc_1", recipient |-> r])

RecipientsNext ==
    TickLedger \/ SubmitToRecipient \/ UpdateRecipient \/ AddRecipient
        \/ Sweep

SpecRecipients == Init /\ [][RecipientsNext]_vars

(***************************************************************************)
(* The session.  loginState is what the mount effect leaves (intro,        *)
(* welcome or profile_signin, by the stored session) and moves by the      *)
(* callbacks of the login screens; the ledger screens exist only while it  *)
(* is logged_in.  The sweep effect runs at mount, before the early returns *)
(* of the render, and its dependencies do not include loginState, so the   *)
(* interval is armed from mount to unmount.                                *)
(***************************************************************************)
MountStates == {"intro", "welcome", "profile_signin"}

\* The render returns early in these states: no modal is on the screen.
EarlyReturnStates == {"intro", "welcome"}

INACTIVITY_TIMEOUT == 300000
COUNTDOWN_START == 60
ActivationDelay == 5000
WelcomeDelay == 3000

SessionInit ==
    /\ now = 0
    /\ transactions = <<>>
    /\ notifications = <<>>
    /\ pushNotification = Null
    /\ outbox = <<>>
    /\ pushNotificationSettings = [transactions |-> TRUE, security |-> TRUE]
    /\ privacySettings =
           [ads |-> TRUE, sharing |-> FALSE,
            email |-> [transactions |-> TRUE, security |-> TRUE,
                       promotions |-> FALSE],
            sms |-> [transactions |-> TRUE, security |-> TRUE,
                     promotions |-> FALSE]]
    /\ recipients = InitialRecipients
    /\ accounts = InitialAccounts
    /\ loginState \in MountStates
    /\ intervalArmed = TRUE
    /\ pending = <<>>
    /\ rendered = <<>>
    /\ InitShell
    /\ InitViews
    /\ result = NoResult

\* window.setTimeout(callback, delay): the timeout the browser holds
Timeout(kind, delay) == [kind |-> kind, due |-> now + delay]

Due(kind) == {t \in timeouts : t.kind = kind /\ t.due <= now}

\* A reset that arms the new timeout without clearing the pending one
resetInactivityTimerKeepsPending(state, pendingTimeouts) ==
    LET timer == Timeout("inactivity", INACTIVITY_TIMEOUT)
    IN  IF state = "logged_in"
        THEN [inactivityTimer |-> timer,
              timeouts |-> pendingTimeouts \cup {timer}]
        ELSE [inactivityTimer |-> inactivityTimer,
              timeouts |-> pendingTimeouts]

\* resetInactivityTimer as the render with loginState = state built it
resetInactivityTimer(state, pendingTimeouts) ==
    LET cleared == pendingTimeouts \ {inactivityTimer}
        timer == Timeout("inactivity", INACTIVITY_TIMEOUT)
    IN  IF state = "logged_in"
        THEN [inactivityTimer |-> timer, timeouts |-> cleared \cup {timer}]
        ELSE [inactivityTimer |-> inactivityTimer, timeouts |-> cleared]

\* The effect on [resetInactivityTimer]: when loginState changes, its
\* cleanup clears the pending timeout and its body calls the new
\* resetInactivityTimer.
LoginStateEffect(to, pendingTimeouts) ==
    IF to = loginState
    THEN [inactivityTimer |-> inactivityTimer, timeouts |-> pendingTimeouts]
    ELSE resetInactivityTimer(to, pendingTimeouts)

setLoginState(from, to) ==
    /\ intervalArmed
    /\ loginState = from
    /\ loginState' = to
    /\ LET eff == LoginStateEffect(to, timeouts)
       IN  /\ inactivityTimer' = eff.inactivityTimer
           /\ timeouts' = eff.timeouts
    /\ UNCHANGED <<now, transactions, notifications, pushNotification,
                   outbox, pushNotificationSettings, privacySettings,
                   recipients, accounts, intervalArmed, pending, rendered,
                   result, showInactivityModal, showLogoutModal, views>>

\* AdvancedFirstPage onComplete
IntroComplete == setLoginState("intro", "welcome")

\* Welcome onLogin
handleLogin == setLoginState("welcome", "security_check")

\* Welcome onStartCreateAccount
StartCreateAccount == setLoginState("welcome", "account_creation")

\* AccountCreationFlow onBackToLogin
BackToLogin == setLoginState("account_creation", "welcome")

\* OpeningSequence onComplete
OpeningComplete == setLoginState("opening_sequence", "logged_in")

\* PostLoginSecurityCheck onComplete
SecurityCheckComplete == setLoginState("security_check", "logged_in")

\* LoggedOut onLogin and onSwitchUser
LoggedOutLogin == setLoginState("logged_out", "profile_signin")

LoggedOutSwitchUser == setLoginState("logged_out", "welcome")

\* ProfileSignIn onEnterDashboard
EnterDashboard == setLoginState("profile_signin", "security_check")

\* Header onLogout
onLogout ==
    /\ intervalArmed
    /\ loginState = "logged_in"
    /\ showLogoutModal' = TRUE
    /\ UNCHANGED <<now, transactions, notifications, pushNotification,
                   outbox, pushNotificationSettings, privacySettings,
                   recipients, accounts, loginState, intervalArmed, pending,
                   rendered, result, showInactivityModal, inactivityTimer,
                   timeouts, views>>

\* LogoutConfirmationModal onClose
LogoutModalClose ==
    /\ intervalArmed
    /\ loginState \notin EarlyReturnStates
    /\ showLogoutModal
    /\ showLogoutModal' = FALSE
    /\ UNCHANGED <<now, transactions, notifications, pushNotification,
                   outbox, pushNotificationSettings, privacySettings,
                   recipients, accounts, loginState, intervalArmed, pending,
                   rendered, result, showInactivityModal, inactivityTimer,
                   timeouts, views>>

\* LogoutConfirmationModal onConfirm and InactivityModal onLogout
handleLogout ==
    /\ intervalArmed
    /\ loginState \notin EarlyReturnStates
    /\ showLogoutModal \/ showInactivityModal
    /\ showLogoutModal' = FALSE
    /\ loginState' = "logged_out"
    /\ LET eff == LoginStateEffect("logged_out", timeouts)
       IN  /\ inactivityTimer' = eff.inactivityTimer
           /\ timeouts' = eff.timeouts
    /\ UNCHANGED <<now, transactions, notifications, pushNotification,
                   outbox, pushNotificationSettings, privacySettings,
                   recipients, accounts, intervalArmed, pending, rendered,
                   result, showInactivityModal, views>>

\* InactivityModal onStayLoggedIn
handleStayLoggedIn ==
    /\ intervalArmed
    /\ loginState \notin EarlyReturnStates
    /\ showInactivityModal
    /\ showInactivityModal' = FALSE
    /\ LET eff == resetInactivityTimer(loginState, timeouts)
       IN  /\ inactivityTimer' = eff.inactivityTimer
           /\ timeouts' = eff.timeouts
    /\ UNCHANGED <<now, transactions, notifications, pushNotification,
                   outbox, pushNotificationSettings, privacySettings,
                   recipients, accounts, loginState, intervalArmed, pending,
                   rendered, result, showLogoutModal, views>>

\* The mousemove, keydown, scroll and click listeners
Activity ==
    /\ intervalArmed
    /\ LET eff == resetInactivityTimer(loginState, timeouts)
       IN  /\ inactivityTimer' = eff.inactivityTimer
           /\ timeouts' = eff.timeouts
    /\ UNCHANGED <<now, transactions, notifications, pushNotification,
                   outbox, pushNotificationSettings, privacySettings,
                   recipients, accounts, loginState, intervalArmed, pending,
                   rendered, result, showInactivityModal, showLogoutModal,
                   views>>

\* The callback of the inactivity timeout
inactivityTimeout ==
    /\ intervalArmed
    /\ \E t \in Due("inactivity") :
           /\ timeouts' = timeouts \ {t}
           /\ showInactivityModal' = TRUE
    /\ UNCHANGED <<now, transactions, notifications, pushNotification,
                   outbox, pushNotificationSettings, privacySettings,
                   recipients, accounts, loginState, intervalArmed, pending,
                   rendered, result, showLogoutModal, inactivityTimer, views>>

\* NEW_USER_ACCOUNTS_TEMPLATE is an imported constant: one account stands
\* for it.
NewUserAccounts ==
    <<[id |-> "acc_new_0_" \o ToString(now), balance |-> 0,
       status |-> "Provisioning"]>>

\* AccountCreationFlow onCreateAccountSuccess.  MaxActivations bounds the
\* account creations in flight.
handleCreateAccount ==
    /\ intervalArmed
    /\ loginState = "account_creation"
    /\ Cardinality({t \in timeouts : t.kind \in {"activate", "welcome"}})
          < MaxActivations
    /\ loginState' = "opening_sequence"
    /\ accounts' = NewUserAccounts
    /\ LET eff == LoginStateEffect("opening_sequence", timeouts)
       IN  /\ inactivityTimer' = eff.inactivityTimer
           /\ timeouts' =
                  eff.timeouts \cup {Timeout("activate", ActivationDelay)}
    /\ UNCHANGED <<now, transactions, notifications, pushNotification,
                   outbox, pushNotificationSettings, privacySettings,
                   recipients, intervalArmed, pending, rendered, result,
                   showInactivityModal, showLogoutModal, views>>

\* The 5000ms callback of handleCreateAccount
activationTimeout ==
    /\ intervalArmed
    /\ \E t \in Due("activate") :
           timeouts' =
               (timeouts \ {t}) \cup {Timeout("welcome", WelcomeDelay)}
    /\ accounts' =
           [i \in 1..Len(accounts) |-> [status |-> "Active"] @@ accounts[i]]
    /\ outbox' = outbox \o <<[channel |-> "email", kind |-> "fullWelcome"],
                             [channel |-> "sms", kind |-> "fullWelcome"]>>
    /\ UNCHANGED <<now, transactions, notifications, pushNotification,
                   pushNotificationSettings, privacySettings, recipients,
                   loginState, intervalArmed, pending, rendered, result,
                   showInactivityModal, showLogoutModal, inactivityTimer,
                   views>>

\* The 3000ms callback inside it
welcomeTimeout ==
    /\ intervalArmed
    /\ \E t \in Due("welcome") :
           LET eff == LoginStateEffect("logged_in", timeouts \ {t})
           IN  /\ inactivityTimer' = eff.inactivityTimer
               /\ timeouts' = eff.timeouts
    /\ outbox' = Append(outbox, [channel |-> "email", kind |-> "welcome"])
    /\ loginState' = "logged_in"
    /\ UNCHANGED <<now, transactions, notifications, pushNotification,
                   pushNotificationSettings, privacySettings, recipients,
                   accounts, intervalArmed, pending, rendered, result,
                   showInactivityModal, showLogoutModal, views>>

\* The cleanups of the sweep effect and of the inactivity effect; nothing
\* of the component runs after them.
Unmount ==
    /\ intervalArmed
    /\ intervalArmed' = FALSE
    /\ timeouts' = timeouts \ {inactivityTimer}
    /\ UNCHANGED <<now, transactions, notifications, pushNotification,
                   outbox, pushNotificationSettings, privacySettings,
                   recipients, accounts, loginState, pending, rendered,
                   result, showInactivityModal, showLogoutModal,
                   inactivityTimer, views>>

\* The interval callback: it asks for nothing but the interval.
intervalCallback == intervalArmed /\ Sweep

SessionSubmit == intervalArmed /\ loginState = "logged_in" /\ Submit

SessionAuthorize == intervalArmed /\ loginState = "logged_in" /\ Authorize

SessionNext ==
    \/ TickLedger
    \/ IntroComplete \/ handleLogin \/ SecurityCheckComplete
    \/ onLogout \/ handleLogout \/ LoggedOutLogin \/ LoggedOutSwitchUser
    \/ EnterDashboard \/ Unmount
    \/ SessionSubmit \/ SessionAuthorize \/ intervalCallback

SpecSession == SessionInit /\ [][SessionNext]_vars

(***************************************************************************)
(* The login screens, the modals and the timeouts, without the ledger.     *)
(* The clock does not pass a timeout that is due: its callback runs first. *)
(* SpecShell observes the clock every second for a few seconds, SpecIdle   *)
(* once per countdown period of the inactivity modal for a few minutes.    *)
(***************************************************************************)
NoneDue == \A t \in timeouts : t.due > now

TickShell ==
    /\ NoneDue
    /\ now + MsPerSecond <= MaxShellClock
    /\ now' = now + MsPerSecond
    /\ UNCHANGED <<transactions, notifications, pushNotification, outbox,
                   pushNotificationSettings, privacySettings, session,
                   result>>

TickIdle ==
    /\ NoneDue
    /\ now + COUNTDOWN_START * MsPerSecond <= MaxIdleClock
    /\ now' = now + COUNTDOWN_START * MsPerSecond
    /\ UNCHANGED <<transactions, notifications, pushNotification, outbox,
                   pushNotificationSettings, privacySettings, session,
                   result>>

\* The inactivity timeout is minutes away: it is left to SpecIdle.
ShellNext ==
    \/ IntroComplete \/ handleLogin \/ StartCreateAccount \/ BackToLogin
    \/ handleCreateAccount \/ OpeningComplete \/ SecurityCheckComplete
    \/ onLogout \/ LogoutModalClose \/ handleLogout
    \/ LoggedOutLogin \/ LoggedOutSwitchUser \/ EnterDashboard
    \/ Activity \/ activationTimeout \/ welcomeTimeout
    \/ Unmount

SpecShell == SessionInit /\ [][TickShell \/ ShellNext]_vars

IdleNext == TickIdle \/ ShellNext \/ inactivityTimeout \/ handleStayLoggedIn

SpecIdle == SessionInit /\ [][IdleNext]_vars

(***************************************************************************)
(* The update queue.  The interval callback and onAuthorizeTransaction do  *)
(* not write the ledger: each calls setTransactions with an updater, and   *)
(* React runs the queued updaters in order, each on the result of the one  *)
(* before it, and then renders.  Here `pending` is that queue,             *)
(* `transactions` the ledger as the processed updaters have left it, and   *)
(* `rendered` the ledger of the last render, which is what the closures of *)
(* the handlers hold.  Both updaters read the clock when they run.  One    *)
(* flagged transaction stands in the ledger at the start.                  *)
(***************************************************************************)
MaxPending == 2
MaxQueueClock == 10000

SweepUpdate == [op |-> "sweep"]

AuthorizeUpdate(transactionId, method) ==
    [op |-> "authorize", transactionId |-> transactionId, method |-> method]

\* Updaters that computed the new ledger from the ledger of the render
\* that created them, not from the argument React passes them.
ApplyUpdateToRendered(update, prevTransactions, seen, t) ==
    IF update.op = "sweep"
    THEN [i \in 1..Len(seen) |-> SweepTx(seen[i], t)]
    ELSE [i \in 1..Len(seen) |->
             AuthorizeTx(seen[i], update.transactionId, update.method, t)]

\* prevTransactions => prevTransactions.map(...)
ApplyUpdate(update, prevTransactions, seen, t) ==
    IF update.op = "sweep"
    THEN [i \in 1..Len(prevTransactions) |-> SweepTx(prevTransactions[i], t)]
    ELSE [i \in 1..Len(prevTransactions) |->
             AuthorizeTx(prevTransactions[i], update.transactionId,
                         update.method, t)]

QueueInit ==
    LET d == CHOOSE x \in TransactionDetails :
                 Has(x, "requiresAuth") /\ x.requiresAuth
        tx == SweepTx(NewTransaction(d, 0), FlaggedAt)
        st == addNotification(
                  [notifications |-> <<>>, pushNotification |-> Null],
                  "TRANSACTION", "Transfer Submitted",
                  tx.recipient.fullName,
                  [transactions |-> TRUE, security |-> TRUE], 0)
    IN  /\ now = FlaggedAt
        /\ transactions = <<tx>>
        /\ rendered = <<tx>>
        /\ pending = <<>>
        /\ notifications = st.notifications
        /\ pushNotification = st.pushNotification
        /\ outbox = <<[channel |-> "email", kind |-> "receipt",
                       tx |-> tx.id],
                      [channel |-> "sms", kind |-> "receipt",
                       tx |-> tx.id]>>
        /\ pushNotificationSettings =
               [transactions |-> TRUE, security |-> TRUE]
        /\ privacySettings =
               [ads |-> TRUE, sharing |-> FALSE,
                email |-> [transactions |-> TRUE, security |-> TRUE,
                           promotions |-> FALSE],
                sms |-> [transactions |-> TRUE, security |-> TRUE,
                         promotions |-> FALSE]]
        /\ recipients = InitialRecipients
        /\ accounts = InitialAccounts
        /\ loginState = "logged_in"
        /\ intervalArmed = TRUE
        /\ InitShell
        /\ InitViews
        /\ result = Returned("createTransaction", NewTransaction(d, 0))

TickQueue ==
    /\ now + MsPerSecond <= MaxQueueClock
    /\ now' = now + MsPerSecond
    /\ UNCHANGED <<transactions, notifications, pushNotification, outbox,
                   pushNotificationSettings, privacySettings, session,
                   result>>

setTransactions(update) ==
    /\ Len(pending) < MaxPending
    /\ pending' = Append(pending, update)
    /\ UNCHANGED <<now, transactions, notifications, pushNotification,
                   outbox, pushNotificationSettings, privacySettings,
                   recipients, accounts, loginState, intervalArmed, rendered,
                   result, shell, views>>

\* The interval callback
QueueSweep == setTransactions(SweepUpdate)

\* onAuthorizeTransaction, called from the ledger on the screen
QueueAuthorize ==
    \E tx \in Range(rendered), method \in Methods :
        setTransactions(AuthorizeUpdate(tx.id, method))

\* React runs the first queued updater; after the last one it renders.
processUpdate ==
    /\ pending # <<>>
    /\ LET update == Head(pending)
           eff == IF update.op = "sweep"
                  THEN SweepEffects(transactions, 1,
                           [notifications |-> notifications,
                            pushNotification |-> pushNotification],
                           outbox, pushNotificationSettings,
                           privacySettings, now)
                  ELSE [st |-> [notifications |-> notifications,
                                pushNotification |-> pushNotification],
                        outbox |-> outbox]
       IN  /\ transactions' = ApplyUpdate(update, transactions, rendered, now)
           /\ notifications' = eff.st.notifications
           /\ pushNotification' = eff.st.pushNotification
           /\ outbox' = eff.outbox
    /\ pending' = Tail(pending)
    /\ rendered' = IF Tail(pending) = <<>> THEN transactions' ELSE rendered
    /\ UNCHANGED <<now, pushNotificationSettings, privacySettings,
                   recipients, accounts, loginState, intervalArmed, result,
                   shell, views>>

QueueNext == TickQueue \/ QueueSweep \/ QueueAuthorize \/ processUpdate

SpecQueue == QueueInit /\ [][QueueNext]_vars

(***************************************************************************)
(* The paying handlers.  Each one looks the account up in `accounts` as    *)
(* the render that built the handler saw it (renderedAccounts), compares   *)
(* its balance with the amount, and queues setAccounts(prev => ...), which *)
(* subtracts the amount from the balance of the current state.  Render is  *)
(* React rendering App again, which rebuilds the handlers.  `paid` stands  *)
(* for the collections the handlers add to (holdings, bookings, airtime    *)
(* purchases, donations) and for the isPaid marks.                         *)
(***************************************************************************)
PayAccounts ==
    <<[id |-> "acc_1", type |-> "CHECKING", balance |-> 100],
      [id |-> "acc_2", type |-> "SAVINGS", balance |-> 50]>>

PayAmounts == {40, 70}

\* subscriptions and utilityBills, imported constants
Subscriptions == {[id |-> "sub_1", amount |-> 40]}

UtilityBills == {[id |-> "bill_1", amount |-> 70]}

PayInit ==
    /\ now = 0
    /\ transactions = <<>>
    /\ notifications = <<>>
    /\ pushNotification = Null
    /\ outbox = <<>>
    /\ pushNotificationSettings = [transactions |-> TRUE, security |-> TRUE]
    /\ privacySettings =
           [ads |-> TRUE, sharing |-> FALSE,
            email |-> [transactions |-> TRUE, security |-> TRUE,
                       promotions |-> FALSE],
            sms |-> [transactions |-> TRUE, security |-> TRUE,
                     promotions |-> FALSE]]
    /\ recipients = InitialRecipients
    /\ accounts = PayAccounts
    /\ loginState = "logged_in"
    /\ intervalArmed = TRUE
    /\ pending = <<>>
    /\ rendered = <<>>
    /\ InitShell
    /\ InitViews
    /\ result = NoResult

\* accounts.find over the accounts of the closure: the first of the
\* accounts at the positions `found`, or none
FirstAccount(found) ==
    IF found = {} THEN {}
    ELSE {renderedAccounts[CHOOSE i \in found : \A j \in found : i <= j]}

\* accounts.find(a => a.type === AccountType.CHECKING)
CheckingAccount ==
    FirstAccount({i \in 1..Len(renderedAccounts) :
                     renderedAccounts[i].type = "CHECKING"})

\* accounts.find(a => a.id === id)
AccountById(id) ==
    FirstAccount({i \in 1..Len(renderedAccounts) :
                     renderedAccounts[i].id = id})

\* if (!account || account.balance < amount) return false;
\* setAccounts(prev => prev.map(a => a.id === id ? {...a, balance:
\* a.balance - amount} : a)); ...; return true
Pay(op, item, account, amount) ==
    IF account = {} \/ \E a \in account : a.balance < amount
    THEN /\ result' = Returned(op, FALSE)
         /\ UNCHANGED <<now, transactions, notifications, pushNotification,
                        outbox, pushNotificationSettings, privacySettings,
                        recipients, accounts, loginState, intervalArmed,
                        pending, rendered, shell, views>>
    ELSE /\ accounts' =
                [i \in 1..Len(accounts) |->
                    IF \E a \in account : accounts[i].id = a.id
                    THEN [balance |-> accounts[i].balance - amount]
                             @@ accounts[i]
                    ELSE accounts[i]]
         /\ paid' = Append(paid, [op |-> op, item |-> item,
                                  amount |-> amount])
         /\ result' = Returned(op, TRUE)
         /\ UNCHANGED <<now, transactions, notifications, pushNotification,
                        outbox, pushNotificationSettings, privacySettings,
                        recipients, loginState, intervalArmed, pending,
                        rendered, shell, renderedAccounts, depositFlow,
                        receipt>>

onBuyCrypto(assetId, usdAmount, assetPrice) ==
    Pay("onBuyCrypto", assetId, CheckingAccount, usdAmount)

onPaySubscription(subscriptionId) ==
    LET sub == {x \in Subscriptions : x.id = subscriptionId}
    IN  IF sub = {}
        THEN Pay("onPaySubscription", subscriptionId, {}, 0)
        ELSE \E x \in sub :
                 Pay("onPaySubscription", subscriptionId, CheckingAccount,
                     x.amount)

onBookFlight(booking, sourceAccountId) ==
    Pay("onBookFlight", booking.flight, AccountById(sourceAccountId),
        booking.totalPrice)

onPayUtility(billId, sourceAccountId) ==
    LET bill == {x \in UtilityBills : x.id = billId}
    IN  IF bill = {}
        THEN Pay("onPayUtility", billId, {}, 0)
        ELSE \E x \in bill :
                 Pay("onPayUtility", billId, AccountById(sourceAccountId),
                     x.amount)

onPurchaseAirtime(providerId, phoneNumber, amount, accountId) ==
    Pay("onPurchaseAirtime", providerId, AccountById(accountId), amount)

onDonate(causeId, amount, accountId) ==
    Pay("onDonate", causeId, AccountById(accountId), amount)

PayAccountIds == {"acc_1", "acc_2", "acc_none"}

BuyCrypto ==
    \E usdAmount \in PayAmounts :
        Len(paid) < MaxPayments /\ onBuyCrypto("btc", usdAmount, 1)

PaySubscription ==
    \E subscriptionId \in {"sub_1", "sub_none"} :
        Len(paid) < MaxPayments /\ onPaySubscription(subscriptionId)

BookFlight ==
    \E totalPrice \in PayAmounts, sourceAccountId \in PayAccountIds :
        /\ Len(paid) < MaxPayments
        /\ onBookFlight([flight |-> "fl_1", totalPrice |-> totalPrice],
                        sourceAccountId)

PayUtility ==
    \E billId \in {"bill_1", "bill_none"}, sourceAccountId \in PayAccountIds :
        Len(paid) < MaxPayments /\ onPayUtility(billId, sourceAccountId)

PurchaseAirtime ==
    \E amount \in PayAmounts, accountId \in PayAccountIds :
        /\ Len(paid) < MaxPayments
        /\ onPurchaseAirtime("prov_1", "555", amount, accountId)

Donate ==
    \E amount \in PayAmounts, accountId \in PayAccountIds :
        Len(paid) < MaxPayments /\ onDonate("cause_1", amount, accountId)

\* App renders again: the handlers are rebuilt over the current accounts.
Render ==
    /\ renderedAccounts # accounts
    /\ renderedAccounts' = accounts
    /\ UNCHANGED <<now, transactions, notifications, pushNotification,
                   outbox, pushNotificationSettings, privacySettings,
                   recipients, accounts, loginState, intervalArmed, pending,
                   rendered, result, shell, paid, depositFlow, receipt>>

PayNext ==
    \/ BuyCrypto \/ PaySubscription \/ BookFlight \/ PayUtility
    \/ PurchaseAirtime \/ Donate \/ Render

SpecPay == PayInit /\ [][PayNext]_vars

(***************************************************************************)
(* CheckDepositFlow.  depositFlow holds the component's state; amount is   *)
(* the text of the input.  An upload started at step 2 finishes two        *)
(* seconds later, whatever step is on the screen by then: `uploading` is   *)
(* the set of sides with a timeout pending.                                *)
(***************************************************************************)
AmountChars == {"0", "4", "-", "x"}

Digits == {"0", "4"}

DigitValue(c) == IF c = "4" THEN 4 ELSE 0

AmountTexts == UNION {[1..n -> AmountChars] : n \in 0..MaxAmountLen}

DepositAccounts ==
    <<[id |-> "acc_1", balance |-> 100], [id |-> "acc_2", balance |-> 50]>>

Sides == {"front", "back"}

\* The digits of s from position i on, read into acc; end is the first
\* position that is not part of the number.
RECURSIVE ParseDigits(_, _, _)
ParseDigits(s, i, acc) ==
    IF i > Len(s) \/ s[i] \notin Digits
    THEN [value |-> acc, end |-> i]
    ELSE ParseDigits(s, i + 1, acc * 10 + DigitValue(s[i]))

\* parseFloat: an optional sign and the longest run of digits after it;
\* NaN when there is no digit.  What follows the digits is ignored.
ParseFloat(s) ==
    LET negative == Len(s) > 0 /\ s[1] = "-"
        start == IF negative THEN 2 ELSE 1
        parsed == ParseDigits(s, start, 0)
    IN  IF parsed.end = start
        THEN [nan |-> TRUE, value |-> 0]
        ELSE [nan |-> FALSE,
              value |-> IF negative THEN 0 - parsed.value ELSE parsed.value]

\* !numericAmount || numericAmount <= 0
Rejected(numericAmount) ==
    numericAmount.nan \/ numericAmount.value = 0 \/ numericAmount.value <= 0

DepositInit ==
    /\ now = 0
    /\ transactions = <<>>
    /\ notifications = <<>>
    /\ pushNotification = Null
    /\ outbox = <<>>
    /\ pushNotificationSettings = [transactions |-> TRUE, security |-> TRUE]
    /\ privacySettings =
           [ads |-> TRUE, sharing |-> FALSE,
            email |-> [transactions |-> TRUE, security |-> TRUE,
                       promotions |-> FALSE],
            sms |-> [transactions |-> TRUE, security |-> TRUE,
                     promotions |-> FALSE]]
    /\ recipients = InitialRecipients
    /\ accounts \in {DepositAccounts, <<>>}
    /\ loginState = "logged_in"
    /\ intervalArmed = TRUE
    /\ pending = <<>>
    /\ rendered = <<>>
    /\ InitShell
    /\ InitViews
    /\ result = NoResult

\* everything but the component's state
aroundDepositFlow ==
    <<now, transactions, notifications, pushNotification, outbox,
      pushNotificationSettings, privacySettings, recipients, accounts,
      loginState, intervalArmed, pending, rendered, result, shell,
      renderedAccounts, paid, receipt>>

\* onChange={e => setAmount(e.target.value)}
setAmount(text) ==
    /\ depositFlow.step = 1
    /\ depositFlow' = [depositFlow EXCEPT !.amount = text]
    /\ UNCHANGED aroundDepositFlow

\* onChange={e => setAccountId(e.target.value)}: one of the options
setAccountId(id) ==
    /\ depositFlow.step = 1
    /\ \E i \in 1..Len(accounts) : accounts[i].id = id
    /\ depositFlow' = [depositFlow EXCEPT !.accountId = id]
    /\ UNCHANGED aroundDepositFlow

handleDetailsSubmitNoCheck ==
    /\ depositFlow.step = 1
    /\ depositFlow' = [depositFlow EXCEPT !.error = "", !.step = 2]
    /\ UNCHANGED aroundDepositFlow

\* Continue
handleDetailsSubmit ==
    /\ depositFlow.step = 1
    /\ LET numericAmount == ParseFloat(depositFlow.amount)
       IN  IF Rejected(numericAmount)
           THEN depositFlow' =
                    [depositFlow EXCEPT
                        !.error = "Please enter a valid amount."]
           ELSE depositFlow' = [depositFlow EXCEPT !.error = "", !.step = 2]
    /\ UNCHANGED aroundDepositFlow

\* ImageUploader.handleFileChange with a file chosen
handleFileChange(side) ==
    /\ depositFlow.step = 2
    /\ depositFlow' =
           [depositFlow EXCEPT !.uploading = depositFlow.uploading \cup {side}]
    /\ UNCHANGED aroundDepositFlow

\* the timeout of handleFileChange: onImageUpload(base64)
UploadComplete(side) ==
    /\ side \in depositFlow.uploading
    /\ depositFlow' =
           [depositFlow EXCEPT
               !.uploading = depositFlow.uploading \ {side},
               !.frontImage = IF side = "front" THEN "img_front" ELSE @,
               !.backImage = IF side = "back" THEN "img_back" ELSE @]
    /\ UNCHANGED aroundDepositFlow

handleImagesSubmit ==
    /\ IF depositFlow.frontImage = Null \/ depositFlow.backImage = Null
       THEN depositFlow' =
                [depositFlow EXCEPT
                    !.error = "Please upload both front and back images of the check."]
       ELSE depositFlow' = [depositFlow EXCEPT !.error = "", !.step = 3]
    /\ UNCHANGED aroundDepositFlow

\* Review Deposit, disabled={!frontImage || !backImage}
ReviewDeposit ==
    /\ depositFlow.step = 2
    /\ ~(depositFlow.frontImage = Null \/ depositFlow.backImage = Null)
    /\ handleImagesSubmit

\* Back on steps 2 and 3
Back ==
    /\ depositFlow.step \in {2, 3}
    /\ depositFlow' = [depositFlow EXCEPT !.step = depositFlow.step - 1]
    /\ UNCHANGED aroundDepositFlow

handleDeposit ==
    IF /\ depositFlow.frontImage # Null
       /\ depositFlow.backImage # Null
       /\ depositFlow.accountId # ""
    THEN onDepositCheck(
             [amount |-> ParseFloat(depositFlow.amount).value,
              accountId |-> depositFlow.accountId,
              images |-> [front |-> depositFlow.frontImage,
                          back |-> depositFlow.backImage]])
    ELSE UNCHANGED vars

\* Confirm Deposit; one cheque per value of the clock
ConfirmDeposit ==
    /\ depositFlow.step = 3
    /\ \A i \in 1..Len(transactions) : transactions[i].id # ChequeId(now)
    /\ handleDeposit

DepositNext ==
    \/ \E text \in AmountTexts : setAmount(text)
    \/ \E id \in {"acc_1", "acc_2"} : setAccountId(id)
    \/ handleDetailsSubmit
    \/ \E side \in Sides : handleFileChange(side)
    \/ \E side \in Sides : UploadComplete(side)
    \/ ReviewDeposit
    \/ Back
    \/ ConfirmDeposit

SpecDeposit == DepositInit /\ [][DepositNext]_vars

(***************************************************************************)
(* PaymentReceipt.  The receipt shows the transaction at the head of the   *)
(* ledger.  receipt.status is the status that the last run of the effect   *)
(* on [transaction.status] saw; when the ledger holds another status the   *)
(* component has rendered again and the effect is to run: first the        *)
(* cleanup of the run before it, then its body.  React runs it before any  *)
(* later event or timer is handled, so the other steps wait for it.        *)
(***************************************************************************)
AuthWarningDelay == 2000

EffectRan == receipt.status = transactions[1].status

aroundReceipt ==
    <<now, transactions, notifications, pushNotification, outbox,
      pushNotificationSettings, privacySettings, recipients, accounts,
      loginState, intervalArmed, pending, rendered, result, shell,
      renderedAccounts, paid, depositFlow>>

statusEffectKeepsModal ==
    /\ ~EffectRan
    /\ receipt' =
           IF transactions[1].status = IN_TRANSIT
           THEN [receipt EXCEPT
                    !.status = transactions[1].status,
                    !.timer = [kind |-> "authWarning",
                               due |-> now + AuthWarningDelay]]
           ELSE [receipt EXCEPT
                    !.status = transactions[1].status,
                    !.timer = NoTimer]
    /\ UNCHANGED aroundReceipt

\* useEffect(..., [transaction.status]): clearTimeout(timer) of the run
\* before, then a new timeout when IN_TRANSIT, else setShowAuthWarning(false)
statusEffect ==
    /\ ~EffectRan
    /\ receipt' =
           IF transactions[1].status = IN_TRANSIT
           THEN [receipt EXCEPT
                    !.status = transactions[1].status,
                    !.timer = [kind |-> "authWarning",
                               due |-> now + AuthWarningDelay]]
           ELSE [showAuthWarning |-> FALSE,
                 timer |-> NoTimer,
                 status |-> transactions[1].status]
    /\ UNCHANGED aroundReceipt

\* the callback of the timeout: setShowAuthWarning(true).  It may run late.
authWarningTimeout ==
    /\ EffectRan
    /\ receipt.timer # NoTimer
    /\ receipt.timer.due <= now
    /\ receipt' = [receipt EXCEPT !.showAuthWarning = TRUE, !.timer = NoTimer]
    /\ UNCHANGED aroundReceipt

\* AuthorizationWarningModal onClose
authWarningClose ==
    /\ EffectRan
    /\ receipt.showAuthWarning
    /\ receipt' = [receipt EXCEPT !.showAuthWarning = FALSE]
    /\ UNCHANGED aroundReceipt

\* AuthorizationWarningModal onAuthorize
authWarningAuthorize ==
    /\ EffectRan
    /\ receipt.showAuthWarning
    /\ \E method \in Methods :
           onAuthorizeTransaction(transactions[1].id, method)

ReceiptNext ==
    \/ statusEffect
    \/ authWarningTimeout
    \/ authWarningClose
    \/ authWarningAuthorize
    \/ EffectRan /\ Tick
    \/ EffectRan /\ Sweep
    \/ EffectRan /\ Authorize

SpecReceipt == FairInit /\ [][ReceiptNext]_vars

(***************************************************************************)
(* Properties.  A step that submits prepends one record, so the record at  *)
(* position i before a step is at position i + Shift after it.             *)
(***************************************************************************)
Shift == Len(transactions') - Len(transactions)

Old(i) == transactions[i]

New(i) == transactions'[i + Shift]

Ledger == 1..Len(transactions)

RequiresAuth(tx) == Has(tx, "requiresAuth") /\ tx.requiresAuth

FeePaid(tx) == Has(tx, "clearanceFeePaid") /\ tx.clearanceFeePaid

\* C1: a transaction with requiresAuth = true enters IN_TRANSIT only from
\* CLEARANCE_GRANTED, and enters CLEARANCE_GRANTED only from
\* FLAGGED_AWAITING_CLEARANCE in a step that is an Authorize call for its
\* id; a Sweep never moves any transaction into CLEARANCE_GRANTED.
C1_AuthorizationGate ==
    [][/\ \A i \in Ledger :
            RequiresAuth(Old(i)) =>
               /\ (New(i).status = IN_TRANSIT /\ Old(i).status # IN_TRANSIT
                     => Old(i).status = CLEARANCE_GRANTED)
               /\ (New(i).status = CLEARANCE_GRANTED
                     /\ Old(i).status # CLEARANCE_GRANTED
                     => /\ Old(i).status = FLAGGED_AWAITING_CLEARANCE
                        /\ \E method \in Methods :
                               onAuthorizeTransaction(Old(i).id, method))
       /\ \A j \in 1..Shift :
            transactions'[j].status \notin {IN_TRANSIT, CLEARANCE_GRANTED}
       /\ Sweep =>
            \A i \in Ledger :
               New(i).status = CLEARANCE_GRANTED
                  => Old(i).status = CLEARANCE_GRANTED]_vars

\* C1 case: a requiresAuth transaction has been authorized and the sweep
\* has moved it on to IN_TRANSIT.
C1_Witness ==
    \E i \in Ledger :
        /\ RequiresAuth(transactions[i])
        /\ transactions[i].status = IN_TRANSIT
        /\ Has(transactions[i].statusTimestamps, CLEARANCE_GRANTED)

\* C2: a transaction whose requiresAuth is false (or was never set, which
\* the sweep treats alike) is never in FLAGGED_AWAITING_CLEARANCE or
\* CLEARANCE_GRANTED and has no timestamp for either.
C2_NoAuthNeverFlagged ==
    \A i \in Ledger :
        ~RequiresAuth(transactions[i]) =>
           /\ transactions[i].status \notin
                  {FLAGGED_AWAITING_CLEARANCE, CLEARANCE_GRANTED}
           /\ DOMAIN transactions[i].statusTimestamps
                  \cap {FLAGGED_AWAITING_CLEARANCE, CLEARANCE_GRANTED} = {}

\* C2 case: a transaction created with requiresAuth = false has been swept
\* all the way to FUNDS_ARRIVED.
C2_Witness ==
    \E i \in Ledger :
        /\ Has(transactions[i], "requiresAuth")
        /\ transactions[i].requiresAuth = FALSE
        /\ transactions[i].status = FUNDS_ARRIVED

\* C3: FUNDS_ARRIVED is absorbing: no step (Sweep at any clock value,
\* Authorize with any id and method, Submit, clock tick) changes any field
\* of a record whose status is FUNDS_ARRIVED.
C3_FundsArrivedAbsorbing ==
    [][\A i \in Ledger :
          Old(i).status = FUNDS_ARRIVED => New(i) = Old(i)]_vars

\* C3 case: a transaction arrived earlier and the clock has moved on since,
\* so later sweeps and Authorize calls find it in FUNDS_ARRIVED.
C3_Witness ==
    \E i \in Ledger :
        /\ transactions[i].status = FUNDS_ARRIVED
        /\ now > transactions[i].statusTimestamps[FUNDS_ARRIVED]

\* C4: Authorize(transactionId, method) changes no record other than one
\* that has that id and is in FLAGGED_AWAITING_CLEARANCE; when no record
\* with that id is in that status (the id is unknown, or its transaction is
\* in any other status) the ledger after the call equals the ledger before,
\* and nothing else is written either.
C4_AuthorizeNoOp ==
    [][\A transactionId \in LedgerIds \cup {NoSuchId}, method \in Methods :
          onAuthorizeTransaction(transactionId, method) =>
             /\ \A i \in Ledger :
                   ~(Old(i).id = transactionId
                       /\ Old(i).status = FLAGGED_AWAITING_CLEARANCE)
                     => New(i) = Old(i)
             /\ (~\E i \in Ledger :
                     /\ Old(i).id = transactionId
                     /\ Old(i).status = FLAGGED_AWAITING_CLEARANCE)
                  => transactions' = transactions
             /\ UNCHANGED <<notifications, pushNotification, outbox>>]_vars

\* C4 case: a transaction was authorized at an earlier time and has left
\* FLAGGED_AWAITING_CLEARANCE, so that a further Authorize for its id, like
\* one for an unknown id, finds nothing to change.
C4_Witness ==
    \E i \in Ledger :
        /\ transactions[i].status = CLEARANCE_GRANTED
        /\ now > transactions[i].statusTimestamps[CLEARANCE_GRANTED]

C6_FlaggedHasNoTimeout ==
    [][/\ Sweep =>
            \A i \in Ledger :
               Old(i).status = FLAGGED_AWAITING_CLEARANCE => New(i) = Old(i)
       /\ \A i \in Ledger :
            (Old(i).status = FLAGGED_AWAITING_CLEARANCE
               /\ New(i).status # FLAGGED_AWAITING_CLEARANCE)
            => \E method \in Methods :
                   onAuthorizeTransaction(Old(i).id, method)]_vars

\* C6 case: a transaction is still FLAGGED_AWAITING_CLEARANCE long after
\* every time threshold of the sweep has passed.
C6_Witness ==
    \E i \in Ledger :
        /\ transactions[i].status = FLAGGED_AWAITING_CLEARANCE
        /\ now - transactions[i].statusTimestamps[SUBMITTED]
               > ArriveAfter * MsPerSecond

\* C7: with elapsed = sweep time - SUBMITTED timestamp, a Sweep takes
\* SUBMITTED to CONVERTING (requiresAuth not true) or to
\* FLAGGED_AWAITING_CLEARANCE (requiresAuth true) exactly when elapsed > 4s,
\* CONVERTING to IN_TRANSIT exactly when elapsed > 8s, IN_TRANSIT to
\* FUNDS_ARRIVED exactly when elapsed > 15s, stamping the new status with
\* the sweep time; otherwise the record is unchanged.
C7_SweepThresholds ==
    [][Sweep =>
         \A i \in Ledger :
            LET elapsed == now - Old(i).statusTimestamps[SUBMITTED]
                expected ==
                    CASE Old(i).status = SUBMITTED
                           /\ elapsed > ConvertAfter * MsPerSecond ->
                             IF RequiresAuth(Old(i))
                             THEN FLAGGED_AWAITING_CLEARANCE ELSE CONVERTING
                      [] Old(i).status = CONVERTING
                           /\ elapsed > TransitAfter * MsPerSecond ->
                             IN_TRANSIT
                      [] Old(i).status = IN_TRANSIT
                           /\ elapsed > ArriveAfter * MsPerSecond ->
                             FUNDS_ARRIVED
                      [] OTHER -> Old(i).status
            IN  Old(i).status \in {SUBMITTED, CONVERTING, IN_TRANSIT}
                => /\ New(i).status = expected
                   /\ expected # Old(i).status
                        => New(i).statusTimestamps[expected] = now
                   /\ expected = Old(i).status => New(i) = Old(i)]_vars

\* C7 case: the scenario of the claim: requiresAuth = false, swept at 5s,
\* 9s and 16s after the submission.
C7_Witness ==
    \E i \in Ledger :
        LET tx == transactions[i]
            at(k) == tx.statusTimestamps[SUBMITTED] + k * MsPerSecond
        IN  /\ Has(tx, "requiresAuth") /\ tx.requiresAuth = FALSE
            /\ tx.status = FUNDS_ARRIVED
            /\ tx.statusTimestamps[CONVERTING] = at(5)
            /\ tx.statusTimestamps[IN_TRANSIT] = at(9)
            /\ tx.statusTimestamps[FUNDS_ARRIVED] = at(16)

\* C8: a Sweep takes CLEARANCE_GRANTED to IN_TRANSIT exactly when the sweep
\* time exceeds the CLEARANCE_GRANTED timestamp by more than 4s; a sweep 4s
\* or less after the grant leaves the record in CLEARANCE_GRANTED.
C8_ClearanceDelay ==
    [][Sweep =>
         \A i \in Ledger :
            Old(i).status = CLEARANCE_GRANTED
            => New(i).status =
                  IF now - Old(i).statusTimestamps[CLEARANCE_GRANTED]
                         > ClearanceDelay * MsPerSecond
                  THEN IN_TRANSIT ELSE CLEARANCE_GRANTED]_vars

C12_SubmitCreates ==
    /\ [](\A d \in TransactionDetails : ENABLED createTransaction(d))
    /\ [][\A d \in TransactionDetails :
             createTransaction(d) =>
                /\ result'.op = "createTransaction"
                /\ Has(result'.value, "id")
                /\ result'.value.status = SUBMITTED
                /\ DOMAIN result'.value.statusTimestamps = {SUBMITTED}
                /\ result'.value.statusTimestamps[SUBMITTED] = now
                /\ Len(transactions') = Len(transactions) + 1
                /\ transactions'[1] = result'.value
                /\ \A i \in Ledger : New(i) = Old(i)]_vars

\* C12 case: a transaction was submitted into a ledger that already held a
\* cheque deposit.
C12_Witness ==
    /\ Len(transactions) = 2
    /\ result.op = "createTransaction"
    /\ transactions[1] = result.value
    /\ Has(transactions[2], "chequeDetails")

\* C13: no two records of the ledger have the same id, whichever of Submit,
\* the split transfer and the cheque deposit created them, so that an
\* Authorize call for an id can find at most one record.
C13_UniqueIds ==
    \A i, j \in Ledger :
        i # j => transactions[i].id # transactions[j].id

\* The edges of the status progression
StatusEdges ==
    {<<SUBMITTED, CONVERTING>>, <<SUBMITTED, FLAGGED_AWAITING_CLEARANCE>>,
     <<CONVERTING, IN_TRANSIT>>,
     <<FLAGGED_AWAITING_CLEARANCE, CLEARANCE_GRANTED>>,
     <<CLEARANCE_GRANTED, IN_TRANSIT>>, <<IN_TRANSIT, FUNDS_ARRIVED>>}

\* C11: in every step of every operation on the ledger, the bulk update of
\* the activity log included, a record either keeps its status or moves
\* along one of the six edges, and the status it moves to is one it has not
\* been in before (it has no timestamp for it yet).
C11_StatusOnlyAdvances ==
    [][\A i \in Ledger :
          New(i).status # Old(i).status =>
             /\ <<Old(i).status, New(i).status>> \in StatusEdges
             /\ ~Has(Old(i).statusTimestamps, New(i).status)]_vars

\* C14: a step that is neither a Sweep nor an Authorize call (a Submit of
\* another transaction, the bulk update onUpdateTransactions(ids, updates),
\* a clock tick) leaves the status and the statusTimestamps of every record
\* of the ledger as they are, and no step at all removes a record: every
\* record is still there after it, under its id.
C14_OnlySweepAndAuthorizeWrite ==
    [][/\ ~(Sweep \/ Authorize) =>
            \A i \in Ledger :
               /\ New(i).status = Old(i).status
               /\ New(i).statusTimestamps = Old(i).statusTimestamps
       /\ Len(transactions') >= Len(transactions)
       /\ \A i \in Ledger : New(i).id = Old(i).id]_vars

\* C15: no step changes the requiresAuth a record was created with: a
\* record created without the field stays without it, and one created with
\* it keeps the value.
C15_RequiresAuthImmutable ==
    [][\A i \in Ledger :
          /\ Has(New(i), "requiresAuth") = Has(Old(i), "requiresAuth")
          /\ Has(Old(i), "requiresAuth")
                => New(i).requiresAuth = Old(i).requiresAuth]_vars

\* What a receipt shows of the recipient: it reads the record only.
ReceiptRecipient(tx) == tx.recipient

\* C16: a transaction records the recipient as it is in the recipients
\* collection when the transfer is submitted, and onUpdateRecipient and
\* addRecipient, with any id and data, leave the whole ledger as it is: of
\* the recipients, the ledger and the settings they change the recipients
\* only (and tell the user by a notification).  No later step of any kind
\* changes the recipient a record holds.
C16_RecipientSnapshot ==
    [][/\ \A recipientId \in RecipientIds \cup {"rec_none"},
             data \in RecipientData :
             (onUpdateRecipient(recipientId, data) \/ addRecipient(data))
             => UNCHANGED <<transactions, outbox, pushNotificationSettings,
                            privacySettings, accounts>>
       /\ \A i \in Ledger :
             ReceiptRecipient(New(i)) = ReceiptRecipient(Old(i))
       /\ \A j \in 1..Shift :
             ReceiptRecipient(transactions'[j]) \in Range(recipients)]_vars

\* C16 case: the recipient of a submitted transfer was edited afterwards:
\* the collection has the new name under the same id and the record has
\* the name it was submitted with.
C16_Witness ==
    \E i \in Ledger, k \in 1..Len(recipients) :
        /\ recipients[k].id = transactions[i].recipient.id
        /\ recipients[k].fullName # transactions[i].recipient.fullName
        /\ transactions[i].status # SUBMITTED

\* The records that a step takes from IN_TRANSIT to FUNDS_ARRIVED
Arriving == {i \in Ledger : Old(i).status = IN_TRANSIT
                             /\ New(i).status = FUNDS_ARRIVED}

\* The notifications and messages that a step adds
NewNotifications ==
    SubSeq(notifications', 1, Len(notifications') - Len(notifications))

NewMessages == SubSeq(outbox', Len(outbox) + 1, Len(outbox'))

\* C17: whatever the push and privacy settings are, a Sweep that takes a
\* record from IN_TRANSIT to FUNDS_ARRIVED adds a 'Funds Arrived'
\* notification and sends the funds-arrived message for that record.
C17_ArrivalAlwaysEmits ==
    [][Sweep =>
         \A i \in Arriving :
            /\ \E k \in 1..Len(NewNotifications) :
                  /\ NewNotifications[k].title = "Funds Arrived"
                  /\ NewNotifications[k].about = Old(i).recipient.fullName
            /\ \E k \in 1..Len(NewMessages) :
                  /\ NewMessages[k].kind = "fundsArrived"
                  /\ NewMessages[k].tx = Old(i).id]_vars

\* The number of elements of a sequence that satisfy a test
Count(seq, Test(_)) == Cardinality({k \in 1..Len(seq) : Test(seq[k])})

C19_SweepOwnedBySession ==
    [][Sweep => intervalArmed /\ loginState = "logged_in"]_vars

\* C20: with the updaters of Authorize and of the sweep queued and run in
\* any order and at any clock values, every ledger an updater finds is
\* entirely before or entirely after the authorization: a record in
\* FLAGGED_AWAITING_CLEARANCE has no CLEARANCE_GRANTED timestamp and no
\* clearanceFeePaid, and a record that has left it has both.  An Authorize
\* updater that finds the record flagged grants it, and once granted a
\* record is never flagged again and keeps its CLEARANCE_GRANTED timestamp
\* and its clearanceFeePaid, whatever sweep was queued before the grant.
C20_AuthorizeAtomic ==
    /\ [](\A i \in Ledger :
            LET tx == transactions[i]
                granted == tx.status \in {CLEARANCE_GRANTED, IN_TRANSIT,
                                          FUNDS_ARRIVED}
            IN  /\ tx.status \in {FLAGGED_AWAITING_CLEARANCE,
                                  CLEARANCE_GRANTED, IN_TRANSIT,
                                  FUNDS_ARRIVED}
                /\ Has(tx.statusTimestamps, CLEARANCE_GRANTED) = granted
                /\ Has(tx, "clearanceFeePaid") = granted)
    /\ [][\A i \in Ledger :
             /\ Has(Old(i).statusTimestamps, CLEARANCE_GRANTED) =>
                   /\ New(i).status # FLAGGED_AWAITING_CLEARANCE
                   /\ Has(New(i).statusTimestamps, CLEARANCE_GRANTED)
                   /\ New(i).statusTimestamps[CLEARANCE_GRANTED]
                         = Old(i).statusTimestamps[CLEARANCE_GRANTED]
                   /\ New(i).clearanceFeePaid = Old(i).clearanceFeePaid
             /\ (/\ processUpdate
                 /\ Head(pending).op = "authorize"
                 /\ Head(pending).transactionId = Old(i).id
                 /\ Old(i).status = FLAGGED_AWAITING_CLEARANCE) =>
                   /\ New(i).status = CLEARANCE_GRANTED
                   /\ New(i).statusTimestamps[CLEARANCE_GRANTED] = now
                   /\ New(i).clearanceFeePaid
                         = (Head(pending).method = "fee")]_vars

\* C20 case: the updater of Authorize has run and a sweep that was queued
\* during the same render, from which the record still shows as flagged,
\* is the next to run.
C20_Witness ==
    /\ pending # <<>>
    /\ Head(pending).op = "sweep"
    /\ \E i \in Ledger :
          /\ transactions[i].status = CLEARANCE_GRANTED
          /\ rendered[i].status = FLAGGED_AWAITING_CLEARANCE

\* C21: Sweep is idempotent: the ledger a Sweep leaves is a fixed point of
\* Sweep at the same clock value, so a second Sweep run straight after the
\* first changes no record.
C21_SweepIdempotent ==
    [][Sweep =>
          \A i \in 1..Len(transactions') :
              SweepTx(transactions'[i], now) = transactions'[i]]_vars

\* C22: with the sweep and the clock weakly fair, a submitted transaction
\* that does not require authorization eventually reaches FUNDS_ARRIVED,
\* one that requires it eventually reaches FLAGGED_AWAITING_CLEARANCE (it
\* gets the timestamp of that status), and
\* one that has been authorized (CLEARANCE_GRANTED) eventually reaches
\* FUNDS_ARRIVED.
C22_Progress ==
    /\ ~RequiresAuth(transactions[1])
          ~> (transactions[1].status = FUNDS_ARRIVED)
    /\ RequiresAuth(transactions[1])
          ~> Has(transactions[1].statusTimestamps,
                 FLAGGED_AWAITING_CLEARANCE)
    /\ (transactions[1].status = CLEARANCE_GRANTED)
          ~> (transactions[1].status = FUNDS_ARRIVED)

\* C22 case: a transaction that required authorization, was flagged,
\* authorized, and has arrived.
C22_Witness ==
    \E i \in Ledger :
        /\ RequiresAuth(transactions[i])
        /\ transactions[i].status = FUNDS_ARRIVED
        /\ Has(transactions[i].statusTimestamps, CLEARANCE_GRANTED)

\* C23: one Sweep moves each record along at most one edge of the
\* progression, however late it runs: a record found SUBMITTED leaves the
\* sweep SUBMITTED, CONVERTING or FLAGGED_AWAITING_CLEARANCE, so a record
\* in FUNDS_ARRIVED has been through IN_TRANSIT and, before it, through
\* CONVERTING or CLEARANCE_GRANTED (three sweeps at least); and what the
\* sweep does to a record is the sweep of that record alone at the clock
\* value, whatever else the ledger holds.
C23_OneStepPerSweep ==
    /\ [](\A i \in Ledger :
            transactions[i].status = FUNDS_ARRIVED =>
                /\ Has(transactions[i].statusTimestamps, IN_TRANSIT)
                /\ \/ Has(transactions[i].statusTimestamps, CONVERTING)
                   \/ Has(transactions[i].statusTimestamps,
                          CLEARANCE_GRANTED))
    /\ [][Sweep =>
             \A i \in Ledger :
                 /\ \/ New(i).status = Old(i).status
                    \/ <<Old(i).status, New(i).status>> \in StatusEdges
                 /\ Old(i).status = SUBMITTED =>
                       New(i).status \in {SUBMITTED, CONVERTING,
                                          FLAGGED_AWAITING_CLEARANCE}
                 /\ New(i) = SweepTx(Old(i), now)
                 /\ \A j \in Ledger :
                       [Old(j) EXCEPT !.id = Old(i).id] = Old(i)
                           => [New(j) EXCEPT !.id = New(i).id] = New(i)]_vars

\* C23 case: a sweep found a record still SUBMITTED more than 15 s after
\* its submission and made it CONVERTING, next to a record of another
\* status in the same ledger.
C23_Witness ==
    \E i, j \in Ledger :
        /\ transactions[i].status = CONVERTING
        /\ transactions[i].statusTimestamps[CONVERTING]
              - transactions[i].statusTimestamps[SUBMITTED]
                 > ArriveAfter * MsPerSecond
        /\ transactions[j].status \notin {CONVERTING, SUBMITTED}

\* C24: loginState becomes logged_in only from security_check or from
\* opening_sequence; in particular no step takes it from logged_out to
\* logged_in, whatever timeout was pending when handleLogout ran.
C24_LoggedInOnlyBySignIn ==
    [][loginState' = "logged_in" =>
          loginState \in {"logged_in", "security_check",
                          "opening_sequence"}]_vars

\* C25: the inactivity modal is shown only while a session is active.
C25_ModalOnlyLoggedIn ==
    showInactivityModal => loginState = "logged_in"

InactivityPending == {t \in timeouts : t.kind = "inactivity"}

\* C26: at most one inactivity timeout is pending, and only while the
\* component is mounted with loginState = logged_in; an activity event in
\* logged_in leaves exactly one pending timeout, due INACTIVITY_TIMEOUT
\* after the event; and the modal is raised only by the pending timeout
\* when it is due, which then is no longer pending.
C26_OneInactivityTimeout ==
    /\ [](/\ Cardinality(InactivityPending) <= 1
          /\ InactivityPending # {} =>
                /\ loginState = "logged_in"
                /\ intervalArmed
                /\ InactivityPending = {inactivityTimer})
    /\ [][/\ (Activity /\ loginState = "logged_in") =>
                InactivityPending'
                    = {[kind |-> "inactivity",
                        due |-> now + INACTIVITY_TIMEOUT]}
          /\ (loginState = "logged_in" /\ loginState' # "logged_in") =>
                InactivityPending' = {}
          /\ (~showInactivityModal /\ showInactivityModal') =>
                /\ \E t \in InactivityPending : t.due <= now
                /\ InactivityPending' = {}]_vars

\* C26 case: a timeout armed after the first minute, so by an activity
\* event or a later sign-in, has run and raised the modal.
C26_Witness ==
    /\ showInactivityModal
    /\ loginState = "logged_in"
    /\ inactivityTimer.due > INACTIVITY_TIMEOUT
    /\ inactivityTimer.due <= now
    /\ inactivityTimer \notin timeouts

\* C27: onSplitTransaction returns false and leaves the ledger as it is
\* when no account has the id details.sourceAccountId or the balance of
\* that account is below details.totalAmount; otherwise it returns true and
\* puts one SUBMITTED record per split in front of the ledger, with
\* sendAmount = receiveAmount = the amount of the split, fee 0, the
\* recipient of the split and the source account.  Either way it leaves the
\* accounts as they are.
C27_SplitTransfer ==
    [][\A details \in SplitDetails :
          onSplitTransaction(details) =>
              LET funded ==
                      \E i \in 1..Len(accounts) :
                          /\ accounts[i].id = details.sourceAccountId
                          /\ accounts[i].balance >= details.totalAmount
                  n == Len(details.splits)
              IN  /\ accounts' = accounts
                  /\ result' = Returned("onSplitTransaction", funded)
                  /\ ~funded => transactions' = transactions
                  /\ funded =>
                        /\ Len(transactions') = Len(transactions) + n
                        /\ SubSeq(transactions', n + 1, Len(transactions'))
                              = transactions
                        /\ \A k \in 1..n :
                              LET tx == transactions'[n + 1 - k]
                                  split == details.splits[k]
                              IN  /\ tx.status = SUBMITTED
                                  /\ DOMAIN tx.statusTimestamps = {SUBMITTED}
                                  /\ tx.sendAmount = split.amount
                                  /\ tx.receiveAmount = split.amount
                                  /\ tx.fee = 0
                                  /\ tx.recipient = split.recipient
                                  /\ tx.accountId = details.sourceAccountId]_vars

\* C27 case: a split of two amounts that the balance covers has been
\* accepted and its two records are in the ledger.
C27_Witness ==
    /\ result = Returned("onSplitTransaction", TRUE)
    /\ Len(transactions) > 1
    /\ \A i \in Ledger : Has(transactions[i], "splitGroupId")

\* C28: no account balance is ever negative, whatever sequence of paying
\* handlers runs and whether or not App has rendered between two of them.
C28_NoNegativeBalance ==
    \A i \in 1..Len(accounts) : accounts[i].balance >= 0

\* C29: the step of CheckDepositFlow goes from 1 to 2 only when the text
\* of the amount parses to a number above 0 and from 2 to 3 only when both
\* images are there, and it never jumps from 1 to 3; a Continue with an
\* amount that does not parse to a number above 0 leaves the step and sets
\* the error; and a cheque is added to the ledger only from step 3, with
\* an amount above 0, an account id that is not empty and both images.
C29_DepositFlowSteps ==
    [][/\ (depositFlow.step = 1 /\ depositFlow'.step # 1) =>
              /\ depositFlow'.step = 2
              /\ ~ParseFloat(depositFlow.amount).nan
              /\ ParseFloat(depositFlow.amount).value > 0
       /\ (depositFlow.step = 2 /\ depositFlow'.step = 3) =>
              /\ depositFlow.frontImage # Null
              /\ depositFlow.backImage # Null
       /\ (handleDetailsSubmit /\ Rejected(ParseFloat(depositFlow.amount))) =>
              /\ depositFlow'.step = depositFlow.step
              /\ depositFlow'.error # ""
       /\ transactions' # transactions =>
              /\ depositFlow.step = 3
              /\ Len(transactions') = Len(transactions) + 1
              /\ transactions'[1].sendAmount > 0
              /\ transactions'[1].accountId # ""
              /\ transactions'[1].accountId = depositFlow.accountId
              /\ transactions'[1].chequeDetails.images.front # Null
              /\ transactions'[1].chequeDetails.images.back # Null]_vars

\* C29 witness: a cheque went through all three steps and is in the ledger
C29_Witness ==
    /\ depositFlow.step = 3
    /\ Len(transactions) > 0
    /\ transactions[1].description = "Mobile Cheque Deposit"
    /\ transactions[1].sendAmount = 40

\* C30: the warning of the receipt goes up only in a step of its timeout,
\* which is due, with the transaction IN_TRANSIT for at least two seconds;
\* once the effect has run, a timeout is pending only while the status is
\* IN_TRANSIT and the warning is up only while the status is IN_TRANSIT
\* (so never while it is FLAGGED_AWAITING_CLEARANCE); and an Authorize from
\* the warning leaves the ledger as it was.
C30_AuthWarning ==
    [][/\ (~receipt.showAuthWarning /\ receipt'.showAuthWarning) =>
              /\ receipt.timer # NoTimer
              /\ receipt.timer.due <= now
              /\ transactions[1].status = IN_TRANSIT
              /\ now - transactions[1].statusTimestamps[IN_TRANSIT]
                     >= AuthWarningDelay
              /\ transactions' = transactions
       /\ (receipt'.status = transactions'[1].status) =>
              /\ receipt'.timer # NoTimer =>
                     transactions'[1].status = IN_TRANSIT
              /\ receipt'.showAuthWarning =>
                     transactions'[1].status = IN_TRANSIT
       /\ authWarningAuthorize => transactions' = transactions]_vars

\* C30 witness: the warning is up on a transfer that was flagged and
\* cleared before it went IN_TRANSIT
C30_Witness ==
    /\ receipt.showAuthWarning
    /\ transactions[1].status = IN_TRANSIT
    /\ Has(transactions[1].statusTimestamps, CLEARANCE_GRANTED)

====
